---- MODULE Spec2Model ----
(***************************************************************************)
(* A model of the Lua bridge of mc (mooffie/mc): the safe-invocation       *)
(* protocol of lib/lua/capi-safecall.c and lib/lua/capi.c, and the         *)
(* widget/proxy identity bridge of lib/lua/ui-impl.c.                      *)
(*                                                                         *)
(* The Lua operand stack is a sequence of tagged values.  C functions are  *)
(* operators over a machine record                                         *)
(*     [stack, first_error, shown, fatal, escaped]                         *)
(* so that one function can call another the way the C code does.  What    *)
(* script code does when it is called (return values, raise an error) is   *)
(* an input of the action that calls it.                                   *)
(***************************************************************************)
EXTENDS Integers, Sequences, FiniteSets, TLC

(* ------------------------------ bounds --------------------------------- *)

\* Largest number of explicit arguments a native caller stages.
MaxArgs == 1

\* Largest number of values a script function returns / a caller expects.
MaxResults == 1

\* Values a native caller may have left on the operand stack before a call.
MaxDepth == 1

(* ------------------------------ values --------------------------------- *)

\* A Lua value: type tag t, string payload s (the text of a string, the
\* "message" field of a table, the name of a function), boolean payload b
\* (the boolean itself; for a table the truthiness of its "abort" field),
\* tr (a traceback was appended to the string), ix (the table has an __index
\* metamethod that raises an error for fields it does not hold) and n (a
\* number, the id of a proxy table, or the address in a light userdata).
Val(t, s, b, tr, ix, n) ==
    [t |-> t, s |-> s, b |-> b, tr |-> tr, ix |-> ix, n |-> n]

NilV ==
    Val("nil", "", FALSE, FALSE, FALSE, 0)

BoolV(b) ==
    Val("boolean", "", b, FALSE, FALSE, 0)

StrV(s) ==
    Val("string", s, FALSE, FALSE, FALSE, 0)

TracedV(s) ==
    Val("string", s, FALSE, TRUE, FALSE, 0)

NumV(n) ==
    Val("number", "7", FALSE, FALSE, FALSE, n)

FnV(name) ==
    Val("function", name, FALSE, FALSE, FALSE, 0)

\* A table that is not a widget proxy: error objects.
TableV(msg, abort, ix) ==
    Val("table", msg, abort, FALSE, ix, 0)

\* The table that is widget proxy number p.
ProxyV(p) ==
    Val("table", "", FALSE, FALSE, FALSE, p)

\* lua_pushlightuserdata (L, w)
AddrV(a) ==
    Val("lightuserdata", "", FALSE, FALSE, FALSE, a)

\* The error values script code raises in this model.
ErrVals ==
    { StrV("boom"), NumV(7), NilV, BoolV(TRUE),
      TableV("", FALSE, FALSE),          \* a plain table
      TableV("stop", TRUE, FALSE),       \* an abort: {abort=true, message="stop"}
      TableV("", TRUE, FALSE),           \* an abort without a message
      TableV("", FALSE, TRUE) }          \* a table whose __index raises

lua_toboolean(v) ==
    ~(v.t = "nil" \/ (v.t = "boolean" /\ ~v.b))

\* lua_isstring: strings and numbers.
lua_isstring(v) ==
    v.t \in {"string", "number"}

lua_isnil(v) ==
    v.t = "nil"

(* --------------------------- stack primitives -------------------------- *)

\* The element of a one-element set.  {F(x) : x \in {e}} evaluates e once,
\* however often F uses it.
Only(S) ==
    CHOOSE x \in S : TRUE

lua_gettop(m) ==
    Len(m.stack)

lua_push(m, v) ==
    [m EXCEPT !.stack = Append(@, v)]

lua_pop(m, n) ==
    [m EXCEPT !.stack = SubSeq(@, 1, Len(@) - n)]

\* Index -1 is the top; idx counts from the top.
lua_at(m, idx) ==
    m.stack[Len(m.stack) + 1 + idx]

\* lua_pushvalue (L, idx) for a negative idx.
lua_pushvalue(m, idx) ==
    lua_push(m, lua_at(m, idx))

\* lua_insert (L, pos): move the top element to absolute position pos.
lua_insert(m, pos) ==
    LET s == m.stack
        n == Len(s)
    IN [m EXCEPT !.stack =
           SubSeq(s, 1, pos - 1) \o <<s[n]>> \o SubSeq(s, pos, n - 1)]

\* lua_remove (L, pos), absolute position pos.
lua_remove(m, pos) ==
    LET s == m.stack
    IN [m EXCEPT !.stack = SubSeq(s, 1, pos - 1) \o SubSeq(s, pos + 1, Len(s))]

\* g_error() of LUAMC_UNGUARD / LUAMC_UNGUARD_BY: the process aborts.
LUAMC_UNGUARD_BY(m, top, by) ==
    IF lua_gettop(m) # top + by THEN [m EXCEPT !.fatal = TRUE] ELSE m

(* ------------------------- protected calls ----------------------------- *)

\* Error code of lua_pcall for a runtime error (lua.h); 0 is success.
LUA_ERRRUN == 2

\* What the called script function does: beh.kind = "ret" returns beh.n
\* values, each of them beh.rv; beh.kind = "err" raises the value beh.v.
Behaviours ==
    [kind : {"ret"}, n : 0..MaxResults, rv : {BoolV(TRUE), NilV}, v : {NilV}]
    \cup [kind : {"err"}, n : {0}, rv : {NilV}, v : ErrVals]

\* debug.traceback(msg, 2): a string (or number) gets the traceback
\* appended, nil becomes the bare traceback, any other value is returned
\* untouched.
_luaMC_pcall__errfunc(v) ==
    IF lua_isstring(v) THEN TracedV(v.s)
    ELSE IF lua_isnil(v) THEN TracedV("")
    ELSE v

\* lua_pcall (L, nargs, nresults, errfunc): the function and its nargs
\* arguments are replaced by nresults results (padded with nil or
\* truncated), or by the one error value, passed through the message
\* handler when errfunc is not 0.  Returns [st, m].
lua_pcall(m, nargs, nresults, errfunc, beh) ==
    LET top  == lua_gettop(m)
        base == SubSeq(m.stack, 1, top - nargs - 1)
        f    == m.stack[top - nargs]
        res  == [i \in 1..nresults |-> IF i <= beh.n THEN beh.rv ELSE NilV]
        e    == IF f.t # "function" THEN StrV("attempt to call a non-function")
                ELSE beh.v
        e2   == IF errfunc # 0 THEN _luaMC_pcall__errfunc(e) ELSE e
    IN IF f.t = "function" /\ beh.kind = "ret"
         THEN [st |-> 0, m |-> [m EXCEPT !.stack = base \o res]]
         ELSE [st |-> LUA_ERRRUN, m |-> [m EXCEPT !.stack = base \o <<e2>>]]

\* luaMC_pcall up to the moment lua_pcall runs the function: the message
\* handler is inserted below the function, at errfunc_idx.
luaMC_pcall_enter(m, nargs) ==
    lua_insert(lua_push(m, FnV("_luaMC_pcall__errfunc")), lua_gettop(m) - nargs)

\* A luaMC_pcall that removes the handler of the outermost call, at the
\* bottom of the stack, instead of the one at errfunc_idx.
luaMC_pcall_leave_bottom(m1, nargs, nresults, errfunc_idx, beh) ==
    Only({ [ok |-> r.st = 0,
            m  |-> lua_remove(
                     LUAMC_UNGUARD_BY(r.m, lua_gettop(m1),
                       IF r.st = 0 THEN -1 - nargs + nresults
                       ELSE -1 - nargs + 1),
                     1)]
           : r \in {lua_pcall(m1, nargs, nresults, errfunc_idx, beh)} })

\* luaMC_pcall from the moment the function called by lua_pcall ends as beh
\* says: LUAMC_GUARD was taken on the stack m1 that holds the handler, the
\* function and its arguments.  Returns [ok, m].
luaMC_pcall_leave(m1, nargs, nresults, errfunc_idx, beh) ==
    Only({ [ok |-> r.st = 0,
            m  |-> lua_remove(
                     LUAMC_UNGUARD_BY(r.m, lua_gettop(m1),
                       IF r.st = 0 THEN -1 - nargs + nresults
                       ELSE -1 - nargs + 1),
                     errfunc_idx)]
           : r \in {lua_pcall(m1, nargs, nresults, errfunc_idx, beh)} })

\* luaMC_pcall: like lua_pcall() except that the message also contains the
\* traceback.  Returns [ok, m].
luaMC_pcall(m, nargs, nresults, beh) ==
    Only({ luaMC_pcall_leave(m1, nargs, nresults, lua_gettop(m) - nargs, beh)
           : m1 \in {luaMC_pcall_enter(m, nargs)} })

(* --------------------------- system callbacks -------------------------- *)

\* The keys of the callback registry the display path looks up.
FancyKeys ==
    {"devel::display_error", "devel::display_abort"}

\* The keys under which script code registers a callback in this model.
SystemKeys ==
    FancyKeys \cup {"event::trigger"}

\* luaMC_get_system_callback: pushes the callback and returns TRUE, or
\* pushes nothing and returns FALSE.  e.callbacks is the set of keys under
\* which script code has registered a function.
luaMC_get_system_callback(m, e, name) ==
    IF name \in e.callbacks
      THEN [ok |-> TRUE, m |-> lua_push(m, FnV(name))]
      ELSE [ok |-> FALSE, m |-> m]

(* --------------------------- displaying errors ------------------------- *)

\* One thing shown to the user: by which function (path), where (sink:
\* the fancy callback, a message box, or stderr), and the value shown.
Shown(path, sink, v) ==
    [path |-> path, sink |-> sink, v |-> v]

\* lua_getfield (L, index, "abort") of luaMC_isabort raises when the table
\* does not hold the field and its __index metamethod raises; no protected
\* call is in progress in handle_error, so the error leaves safe_call.
luaMC_isabort_raises(v) ==
    v.t = "table" /\ v.ix

\* luaMC_isabort: an abort is a table marked with an "abort" property.
luaMC_isabort(v) ==
    v.t = "table" /\ ~v.ix /\ v.b

\* A display_error__simple that always writes to stderr.
display_error__simple_stderr(m, e) ==
    LET v == lua_at(m, -1)
    IN IF lua_isstring(v)
         THEN [m EXCEPT !.shown = Append(@,
                 Shown("display_error__simple", "stderr", v))]
         ELSE m

\* display_error__simple, run under lua_pcall by display_error.
display_error__simple(m, e) ==
    LET v == lua_at(m, -1)
    IN IF lua_isstring(v)
         THEN [m EXCEPT !.shown = Append(@,
                 Shown("display_error__simple",
                       IF e.ui_ready THEN "message" ELSE "stderr", v))]
         ELSE m

\* display_abort__simple, run under lua_pcall by display_error: shows the
\* table's "message" field when it converts to a string.
display_abort__simple(m, e) ==
    LET v == lua_at(m, -1)
    IN IF v.t = "table" /\ v.s # ""
         THEN [m EXCEPT !.shown = Append(@,
                 Shown("display_abort__simple",
                       IF e.ui_ready THEN "message" ELSE "stderr", v))]
         ELSE m

\* The simple display function `simple` called through lua_pcall (L, 1, 0,
\* 0); it consumes the function and its argument.
call_simple(m, e, simple) ==
    LET m1 == lua_pushvalue(lua_push(m, FnV(simple)), -2)
        m2 == IF simple = "display_abort__simple"
                THEN display_abort__simple(m1, e)
                ELSE display_error__simple(m1, e)
    IN lua_pop(m2, 2)

\* A display_error that goes to the simple display without trying the
\* fancy callback.
display_error_simple_only(m, e, fancy, simple) ==
    call_simple(m, e, simple)

\* display_error (L, fancy, simple); the error object is at the top of the
\* stack and stays there.  e.fancy is what the fancy callback does when it
\* is called: "ok" (it shows the value) or "fail" (it raises an error).
display_error(m, e, fancy, simple) ==
    LET cb == luaMC_get_system_callback(m, e, fancy)
        r  == lua_pcall(lua_pushvalue(cb.m, -2), 1, 0, 0,
                        IF e.fancy = "ok"
                          THEN [kind |-> "ret", n |-> 0, rv |-> NilV, v |-> NilV]
                          ELSE [kind |-> "err", n |-> 0, rv |-> NilV,
                                v |-> StrV("error in the display callback")])
        use_simple == ~e.ui_ready \/ ~cb.ok \/ r.st # 0
        m1 == IF ~e.ui_ready \/ ~cb.ok THEN m
              ELSE IF r.st # 0 THEN lua_pop(r.m, 1)
              ELSE [r.m EXCEPT !.shown = Append(@, Shown(fancy, "callback", lua_at(m, -1)))]
    IN IF use_simple THEN call_simple(m1, e, simple) ELSE m1


(* --------------------------- running Lua code -------------------------- *)

\* first_error is a C string: NilV stands for NULL, otherwise the string.
\* A record_first_error without the test of !first_error.
record_first_error_always(m) ==
    [m EXCEPT !.first_error = lua_at(m, -1)]

\* record_first_error: if (!first_error && lua_isstring (L, -1))
\*                         first_error = g_strdup (lua_tostring (L, -1));
record_first_error(m) ==
    IF m.first_error = NilV /\ lua_isstring(lua_at(m, -1))
      THEN [m EXCEPT !.first_error =
              IF lua_at(m, -1).tr THEN TracedV(lua_at(m, -1).s)
              ELSE StrV(lua_at(m, -1).s)]
      ELSE m

\* A handle_error without the final lua_pop (L, 1).
handle_error_nopop(m, e) ==
    IF luaMC_isabort(lua_at(m, -1))
      THEN display_error(m, e, "devel::display_abort", "display_abort__simple")
      ELSE display_error(record_first_error(m), e,
                         "devel::display_error", "display_error__simple")

\* handle_error: the error value is at the top of the stack; classify it,
\* record it, display it, pop it.
handle_error(m, e) ==
    IF luaMC_isabort_raises(lua_at(m, -1))
      THEN [m EXCEPT !.escaped = TRUE]
    ELSE IF luaMC_isabort(lua_at(m, -1))
      THEN lua_pop(display_error(m, e, "devel::display_abort",
                                 "display_abort__simple"), 1)
    ELSE LET m1 == IF ~lua_isstring(lua_at(m, -1))
                     THEN lua_push(lua_pop(m, 1),
                                   StrV("(error object is not a string)"))
                     ELSE m
         IN lua_pop(display_error(record_first_error(m1), e,
                                  "devel::display_error",
                                  "display_error__simple"), 1)

\* A mc_lua_replay_first_error that empties the slot once it has shown it.
mc_lua_replay_first_error_once(m, e) ==
    IF m.first_error # NilV
      THEN [handle_error(lua_push(m, m.first_error), e) EXCEPT !.first_error = NilV]
      ELSE m

\* mc_lua_replay_first_error
mc_lua_replay_first_error(m, e) ==
    IF m.first_error # NilV
      THEN handle_error(lua_push(m, m.first_error), e)
      ELSE m

\* luaMC_safe_call from the moment the function called by lua_pcall ends
\* as beh says; top is the height LUAMC_GUARD saw when luaMC_safe_call was
\* entered, m1 the stack luaMC_pcall_enter left.  Returns [ok, m]; when
\* m.escaped is set the function has not returned at all.
luaMC_safe_call_leave(m1, e, top, nargs, nresults, beh) ==
    Only({ Only({ IF m2.escaped THEN [ok |-> FALSE, m |-> m2]
                  ELSE [ok |-> r.ok,
                        m  |-> LUAMC_UNGUARD_BY(m2, top,
                                 IF r.ok THEN -1 - nargs + nresults
                                 ELSE -1 - nargs)]
                  : m2 \in {IF ~r.ok THEN handle_error(r.m, e) ELSE r.m} })
           : r \in {luaMC_pcall_leave(m1, nargs, nresults, top - nargs, beh)} })

\* luaMC_safe_call (L, nargs, nresults).  Returns [ok, m]; when m.escaped
\* is set the function has not returned at all.
luaMC_safe_call(m, e, nargs, nresults, beh) ==
    Only({ luaMC_safe_call_leave(m1, e, lua_gettop(m), nargs, nresults, beh)
           : m1 \in {luaMC_pcall_enter(m, nargs)} })

\* mc_lua_trigger_event (event_name): calls the "event::trigger" callback,
\* if one is registered, with the name of the event.
mc_lua_trigger_event(m, e, event_name, beh) ==
    Only({ IF cb.ok
             THEN luaMC_safe_call(lua_push(cb.m, StrV(event_name)), e, 1, 0, beh).m
             ELSE m
           : cb \in {luaMC_get_system_callback(m, e, "event::trigger")} })

(* ---------------------------- script files ----------------------------- *)

\* Error codes of luaL_loadfile (lua.h, lauxlib.h of Lua 5.1).
LUA_ERRSYNTAX == 3

LUA_ERRFILE == 6

\* What luaL_loadfile finds: a file that compiles, a file that does not,
\* or no readable file.
Loads ==
    {"ok", "syntax", "file"}

\* luaL_loadfile (L, filename): pushes the compiled chunk, or the error
\* message.  Returns [st, m].
luaL_loadfile(m, load) ==
    IF load = "ok" THEN [st |-> 0, m |-> lua_push(m, FnV("chunk"))]
    ELSE IF load = "syntax"
      THEN [st |-> LUA_ERRSYNTAX, m |-> lua_push(m, StrV("syntax error"))]
    ELSE [st |-> LUA_ERRFILE, m |-> lua_push(m, StrV("cannot open file"))]

\* A luaMC_safe_dofile that runs whatever luaL_loadfile left on the stack.
luaMC_safe_dofile_always_runs(m, e, load, beh) ==
    Only({ Only({ [st |-> IF c.ok THEN r.st ELSE LUA_ERRRUN, m |-> c.m, ran |-> TRUE]
                  : c \in {luaMC_safe_call(r.m, e, 0, 0, beh)} })
           : r \in {luaL_loadfile(m, load)} })

\* luaMC_safe_dofile (L, dirname, basename).  Returns [st, m, ran]: the
\* status, the machine, and whether the chunk was called; beh is what the
\* chunk does when it is called.
luaMC_safe_dofile(m, e, load, beh) ==
    Only({ IF r.st # 0 THEN [st |-> r.st, m |-> handle_error(r.m, e), ran |-> FALSE]
           ELSE Only({ [st |-> IF c.ok THEN 0 ELSE LUA_ERRRUN, m |-> c.m, ran |-> TRUE]
                       : c \in {luaMC_safe_call(r.m, e, 0, 0, beh)} })
           : r \in {luaL_loadfile(m, load)} })

(* ------------------------------ restarting ----------------------------- *)

\* The callbacks the core scripts register when they are loaded.
BootCallbacks ==
    {"keymap::eat"}

\* mc_lua_load: runs the bootstrap file of the core in the Lua state m and
\* triggers "core::loaded"; the core registers its callbacks when it runs
\* to its end.  g_assert (lua_gettop (Lg) == 0) aborts the process.
\* Returns [m, callbacks].
mc_lua_load(m, e, load, beh, tbeh) ==
    Only({ Only({ Only({
             [m |-> IF lua_gettop(m2) # 0 THEN [m2 EXCEPT !.fatal = TRUE] ELSE m2,
              callbacks |-> e2.callbacks]
             : m2 \in {mc_lua_trigger_event(r.m, e2, "core::loaded", tbeh)} })
           : e2 \in {[e EXCEPT !.callbacks = IF r.st = 0 THEN @ \cup BootCallbacks ELSE @]} })
           : r \in {luaMC_safe_dofile(m, e, load, beh)} })

\* restart: triggers "core::before-restart", closes the Lua state
\* (mc_lua_shutdown), makes a new one (mc_lua_init) with an empty stack
\* and an empty callback registry, loads the core into it and triggers
\* "core::after-restart".  Returns [m, callbacks].
restart(m, e, load, beh, tbeh) ==
    Only({ Only({ [m |-> mc_lua_trigger_event(r.m, [e EXCEPT !.callbacks = r.callbacks],
                                              "core::after-restart", tbeh),
                   callbacks |-> r.callbacks]
                  : r \in {mc_lua_load([m1 EXCEPT !.stack = <<>>],
                                       [e EXCEPT !.callbacks = {}], load, beh, tbeh)} })
           : m1 \in {mc_lua_trigger_event(m, e, "core::before-restart", tbeh)} })

\* A check_for_restart that keeps a rejected request for the next key.
check_for_restart_deferring(m, e, requested, gettop, load, beh, tbeh) ==
    IF ~requested
      THEN [m |-> m, callbacks |-> e.callbacks, restart_requested |-> FALSE,
            restarted |-> FALSE]
    ELSE IF gettop = 0
      THEN Only({ [m |-> r.m, callbacks |-> r.callbacks,
                   restart_requested |-> FALSE, restarted |-> TRUE]
                  : r \in {restart(m, e, load, beh, tbeh)} })
    ELSE [m |-> [m EXCEPT !.shown = Append(@,
                   Shown("check_for_restart", "message",
                         StrV("You may not restart Lua from a dialog")))],
          callbacks |-> e.callbacks, restart_requested |-> TRUE,
          restarted |-> FALSE]

\* check_for_restart: gettop is what lua_gettop (Lg) gives, the number of
\* values in the frame of the C function Lg is running, or in the whole
\* stack when it runs none.  Returns [m, callbacks, restart_requested,
\* restarted].
check_for_restart(m, e, requested, gettop, load, beh, tbeh) ==
    IF ~requested
      THEN [m |-> m, callbacks |-> e.callbacks, restart_requested |-> FALSE,
            restarted |-> FALSE]
    ELSE IF gettop = 0
      THEN Only({ [m |-> r.m, callbacks |-> r.callbacks,
                   restart_requested |-> FALSE, restarted |-> TRUE]
                  : r \in {restart(m, e, load, beh, tbeh)} })
    ELSE [m |-> [m EXCEPT !.shown = Append(@,
                   Shown("check_for_restart", "message",
                         StrV("You may not restart Lua from a dialog")))],
          callbacks |-> e.callbacks, restart_requested |-> FALSE,
          restarted |-> FALSE]

(* ------------------------ the ui.weak registry ------------------------- *)

\* The C functions of ui-impl.c work on the machine record and on a record
\* u = [prox, fwd, bwd] of the proxy tables and the two directions of the
\* ui.weak table.

\* A register_widget that stores ui.weak[w] = LuaWidget only.
register_widget_forward_only(u, p, w) ==
    [u EXCEPT !.fwd[w] = p]

\* A register_widget that stores ui.weak[LuaWidget] = w only.
register_widget_backward_only(u, p, w) ==
    [u EXCEPT !.bwd[p] = w]

\* register_widget: ui.weak[w] = LuaWidget; ui.weak[LuaWidget] = w.
register_widget(u, p, w) ==
    [u EXCEPT !.fwd[w] = p, !.bwd[p] = w]

\* luaMC_search_table on ui.weak with the light userdata w: the keys whose
\* value is raw-equal to w.  lua_next() visits the table in no particular
\* order, so any of them may be the one found.
luaMC_search_table(u, w) ==
    {p \in DOMAIN u.bwd : u.bwd[p] = w}

\* What a hard search for w may find: a proxy, or 0 for nil.
Picks(u, w) ==
    IF luaMC_search_table(u, w) = {} THEN {0} ELSE luaMC_search_table(u, w)

\* luaUI_push_registered_widget: pushes the Lua widget of the C widget w
\* and returns TRUE, or pushes nothing and returns FALSE.  pick is what the
\* hard search finds if it is made.  Returns [ok, p, m].
luaUI_push_registered_widget(m, u, w, search_hard, pick) ==
    LET found == IF u.fwd[w] # 0 THEN u.fwd[w]
                 ELSE IF search_hard THEN pick
                 ELSE 0
    IN IF found # 0
         THEN [ok |-> TRUE, p |-> found, m |-> lua_push(m, ProxyV(found))]
         ELSE [ok |-> FALSE, p |-> 0, m |-> m]

\* An unregister_widget without ui.weak[w] = nil.
unregister_widget_keep_forward(u, w, pick) ==
    LET r == luaUI_push_registered_widget([stack |-> <<>>], u, w, TRUE, pick)
    IN IF r.ok THEN [u EXCEPT !.bwd[r.p] = 0] ELSE u

\* unregister_widget: ui.weak[LuaWidget] = nil; ui.weak[w] = nil.
unregister_widget(u, w, pick) ==
    LET r  == luaUI_push_registered_widget([stack |-> <<>>], u, w, TRUE, pick)
        u1 == IF r.ok THEN [u EXCEPT !.bwd[r.p] = 0] ELSE u
    IN [u1 EXCEPT !.fwd[w] = 0]

(* ------------------------------ proxies -------------------------------- *)

\* The handlers script code may install on a proxy.
Methods ==
    {"on_destroy", "on_click"}

\* A proxy has no handlers, or all of them.
MethodSets ==
    {{}, Methods}

\* A proxy table: st is "none" before it is allocated, "live", "fin" while
\* the collector is finalizing it (it has been removed from the weak values
\* of ui.weak but not yet from its weak keys), "freed" afterwards; cw is
\* its __cwidget__ field; ref tells whether script code holds a reference
\* to it; meth are the handlers installed on it; in_c is __created_in_c__;
\* inits counts the calls of its "init" metamethod; gen is the generation
\* of the widget it was made for (see gen[a]).
Proxy(cw, ref, meth, in_c, g) ==
    [st |-> "live", cw |-> cw, ref |-> ref, meth |-> meth, in_c |-> in_c,
     gen |-> g, inits |-> 1]

\* The first proxy id not yet allocated (lua_newtable), 0 if none is left.
NewProxy(u) ==
    IF \E p \in DOMAIN u.prox : u.prox[p].st = "none"
      THEN CHOOSE p \in DOMAIN u.prox :
             /\ u.prox[p].st = "none"
             /\ \A q \in DOMAIN u.prox : u.prox[q].st = "none" => p <= q
      ELSE 0

\* luaUI_push_widget_ex: converts a C widget to a Lua object and pushes it.
\* cls tells whether w->scripting_class_name is set, g is the generation of
\* w, meth the handlers script code installs on a proxy made here.
\* Returns [exit, created, p, m, u]; exit is the exit (EXIT_FAILURE).
luaUI_push_widget_ex(m, u, w, cls, g, created_in_c, allow_abstract, meth) ==
    LET r == luaUI_push_registered_widget(m, u, w, FALSE, 0)
        p == NewProxy(u)
    IN IF w = 0
         THEN [exit |-> FALSE, created |-> FALSE, p |-> 0,
               m |-> lua_push(m, NilV), u |-> u]
       ELSE IF r.ok
         THEN [exit |-> FALSE, created |-> FALSE, p |-> r.p, m |-> r.m,
               u |-> [u EXCEPT !.prox[r.p].ref = TRUE]]
       ELSE IF ~allow_abstract /\ ~cls
         THEN [exit |-> TRUE, created |-> FALSE, p |-> 0,
               m |-> [m EXCEPT !.fatal = TRUE], u |-> u]
       ELSE [exit |-> FALSE, created |-> TRUE, p |-> p,
             m |-> lua_push(m, ProxyV(p)),
             u |-> register_widget(
                     [u EXCEPT !.prox[p] = Proxy(AddrV(w), TRUE, meth, created_in_c, g)],
                     p, w)]

\* The __cwidget__ field of the value v (luaMC_rawgetfield): that of the
\* proxy if v is a proxy table, nil for any other table.
RawCWidget(u, v) ==
    IF v.t = "table" /\ v.n # 0 THEN u.prox[v.n].cw ELSE NilV

\* A luaUI_check_widget_ex that takes a nil __cwidget__ for the mark of a
\* destroyed widget.
luaUI_check_widget_ex_nil_as_destroyed(u, v, allow_destroyed) ==
    IF v.t # "table" THEN [res |-> "typerror widget", w |-> 0]
    ELSE IF RawCWidget(u, v).t \in {"boolean", "nil"}
      THEN IF ~allow_destroyed THEN [res |-> "argerror destroyed", w |-> 0]
           ELSE [res |-> "NULL", w |-> 0]
    ELSE [res |-> "ptr", w |-> RawCWidget(u, v).n]

\* luaUI_check_widget_ex (L, idx, allow_destroyed, NULL): converts the Lua
\* object v to a C widget.  res is "ptr" (w is returned), "NULL", or the
\* Lua error raised.
luaUI_check_widget_ex(u, v, allow_destroyed) ==
    IF v.t # "table" THEN [res |-> "typerror widget", w |-> 0]
    ELSE IF RawCWidget(u, v).t = "boolean"
      THEN IF ~allow_destroyed THEN [res |-> "argerror destroyed", w |-> 0]
           ELSE [res |-> "NULL", w |-> 0]
    ELSE IF ~allow_destroyed /\ lua_isnil(RawCWidget(u, v))
      THEN [res |-> "typerror widget*", w |-> 0]
    ELSE IF RawCWidget(u, v).t = "lightuserdata"
      THEN [res |-> "ptr", w |-> RawCWidget(u, v).n]
    ELSE [res |-> "NULL", w |-> 0]

(* --------------------------- method dispatch --------------------------- *)

\* lua_insert (L, idx) for a negative idx.
lua_insert_rel(m, idx) ==
    lua_insert(m, lua_gettop(m) + idx + 1)

\* lua_getfield (Lg, -1, method_name) on the proxy p.
Field(u, p, name) ==
    IF name \in u.prox[p].meth THEN FnV(name) ELSE NilV

\* A call_widget_method_ex without SET_FLAG (method_found, FALSE) after a
\* failed call.
method_found_stays_set(ok) ==
    TRUE

\* SET_FLAG (method_found, ...) around luaMC_safe_call: TRUE before the
\* call, FALSE again when the call has failed.
method_found_after_call(ok) ==
    ok

\* call_widget_method_ex (w, method_name, nargs, &lua_widget_found,
\* &method_found, pop).  Returns [handled, lua_widget_found, method_found,
\* called, m]; called tells whether the method was invoked at all.
call_widget_method_ex(m, u, e, w, method_name, nargs, pop, beh) ==
    Only({
      IF g.ok
        THEN IF Field(u, g.p, method_name).t = "function"
          THEN Only({
                 IF r.m.escaped \/ r.m.fatal
                   THEN [handled |-> FALSE, lua_widget_found |-> TRUE,
                         method_found |-> TRUE, called |-> TRUE, m |-> r.m]
                   ELSE Only({
                          [handled |-> lua_toboolean(lua_at(m3, -1)),
                           lua_widget_found |-> TRUE,
                           method_found |-> method_found_after_call(r.ok),
                           called |-> TRUE,
                           m |-> IF pop THEN lua_pop(m3, 1) ELSE m3]
                          : m3 \in {IF r.ok THEN r.m ELSE lua_push(r.m, NilV)} })
                 : r \in {luaMC_safe_call(
                            lua_insert_rel(lua_insert_rel(lua_insert_rel(
                              lua_push(g.m, Field(u, g.p, method_name)), -2),
                              -(nargs + 2)), -(nargs + 2)),
                            e, 1 + nargs, 1, beh)} })
          ELSE Only({
                 [handled |-> lua_toboolean(lua_at(m3, -1)),
                  lua_widget_found |-> TRUE, method_found |-> FALSE,
                  called |-> FALSE,
                  m |-> IF pop THEN lua_pop(m3, 1) ELSE m3]
                 : m3 \in {lua_push(
                             lua_pop(lua_pop(
                               lua_push(g.m, Field(u, g.p, method_name)), 2), nargs),
                             NilV)} })
        ELSE Only({
               [handled |-> lua_toboolean(lua_at(m3, -1)),
                lua_widget_found |-> FALSE, method_found |-> FALSE,
                called |-> FALSE,
                m |-> IF pop THEN lua_pop(m3, 1) ELSE m3]
               : m3 \in {lua_push(lua_pop(g.m, nargs), NilV)} })
      : g \in {luaUI_push_registered_widget(m, u, w, FALSE, 0)} })

\* A call_widget_method that passes pop = FALSE.
call_widget_method_nopop(m, u, e, w, method_name, nargs, beh) ==
    call_widget_method_ex(m, u, e, w, method_name, nargs, FALSE, beh)

\* call_widget_method: the "easy" version, which pops the result.
call_widget_method(m, u, e, w, method_name, nargs, beh) ==
    call_widget_method_ex(m, u, e, w, method_name, nargs, TRUE, beh)

(* ------------------------------- state --------------------------------- *)

VARIABLES
    stack,        \* the operand stack of the Lua VM (Lg)
    first_error,  \* capi-safecall.c: static const char *first_error
    ui_ready,     \* plumbing.c: static gboolean ui_is_ready
    callbacks,    \* keys of the system callbacks registered by script code
    shown,        \* what the last operation displayed, in order
    halted,       \* "" while running; "fatal" after g_error()/exit();
                  \* "panic" after an error left every protected call
    last,         \* the last operation: its inputs and what it reported
    alive,        \* alive[a]: a native widget exists at address a
    has_class,    \* has_class[a]: its scripting_class_name is not NULL
    gen,          \* gen[a]: how many widgets have lived at address a
    prox,         \* prox[p]: the Lua table that is proxy p
    fwd,          \* ui.weak[w] = LuaWidget; 0 is nil
    bwd,          \* ui.weak[LuaWidget] = w; 0 is nil
    pushed,       \* pushed[a]: the proxy luaUI_push_widget_ex last gave for a
                  \* since the widget now at a was made, 0 if none
    pc,           \* position inside mc_lua_notify_on_widget_destruction
    cur,          \* the widget and proxy that function is working on
    restart_requested,  \* src/lua/plumbing.c: static gboolean restart_requested
    Lg,           \* the Lua state in use: how many restarts made it
    chain,        \* the calls in progress, outermost first: a safe call
                  \* whose script function is running, or a C function
                  \* called by script code that runs an event loop
    lock,         \* src/lua/timer.c: static gboolean lock
    next_timeout, \* src/lua/timer.c: static pit_t next_timeout
    now,          \* the reading of mc_lua_timer_now ()
    wdg,          \* wdg[a]: the fields of the C widget at address a that
                  \* the modules ui and ui-custom read and write
    dirh,         \* the fs.DIR userdata made by fs.opendir
    cell          \* the ref cell made by luafs_open / luafs_opendir

callvars ==
    <<stack, first_error, ui_ready, callbacks, shown, halted, last>>

uivars ==
    <<alive, has_class, gen, prox, fwd, bwd, pushed, pc, cur>>

enginevars ==
    <<restart_requested, Lg, chain>>

vars ==
    <<stack, first_error, ui_ready, callbacks, shown, halted, last,
      alive, has_class, gen, prox, fwd, bwd, pushed, pc, cur,
      restart_requested, Lg, chain, lock, next_timeout, now,
      wdg, dirh, cell>>

timervars ==
    <<lock, next_timeout, now>>

\* The state of the modules fs and luafs.
iovars ==
    <<dirh, cell>>

\* The state of the modules other than the timer.
restvars ==
    <<wdg, iovars>>

\* The state of the modules of src/lua.
modvars ==
    <<timervars, restvars>>

\* The fields of a widget just made: a dialog is DLG_CONSTRUCT until it is
\* run and then DLG_ACTIVE, both "active" here; closing tells that the
\* dialog loop has seen DLG_CLOSED and has not sent MSG_VALIDATE yet;
\* owner tells whether the widget is mapped in a dialog; capture and
\* last_buttons_down are cust->mouse of a custom widget.  pressed_in (a
\* button went down inside the widget and none was released since) and
\* assigned (script code has written mouse.capture) are history, not
\* fields of the C structure.
NoWidgetState ==
    [state |-> "active", closing |-> FALSE, owner |-> FALSE,
     capture |-> FALSE, last_buttons_down |-> "none",
     pressed_in |-> FALSE, assigned |-> FALSE]

\* How many directory handles a run makes.
MaxDirs == 2

DirHandles ==
    1..MaxDirs

\* A directory handle that has not been made; dir is "open" or "NULL",
\* left are the entries mc_readdir will still give; opened (mc_opendir
\* succeeded) and closedirs (how often mc_closedir was called on the
\* native directory) are history.
NoDir ==
    [st |-> "none", dir |-> "NULL", left |-> <<>>, closedirs |-> 0,
     opened |-> FALSE]

\* How many handles of a filesystem written in Lua a run opens.
MaxCells == 2

Cells ==
    1..MaxCells

\* A ref cell that has not been made; st is "live" once lua_ref_cell__new
\* has made it and "disposed" after lua_ref_cell__dispose; kind tells
\* whether it stands for a file or a directory, val is the Lua value it
\* refers to.  unrefs and frees count luaL_unref and g_free on it,
\* stale_reads the reads of the cell after g_free, and closed tells that
\* luafs_close / luafs_closedir has returned: these are history.
NoCell ==
    [st |-> "none", kind |-> "", val |-> NilV, unrefs |-> 0, frees |-> 0,
     stale_reads |-> 0, closed |-> FALSE]

\* The machine record the C functions work on.
Machine ==
    [stack |-> stack, first_error |-> first_error, shown |-> <<>>,
     fatal |-> FALSE, escaped |-> FALSE]

\* What the C functions read from their surroundings; fancy is what a
\* registered display callback does if it gets called.
Env(fancy) ==
    [ui_ready |-> ui_ready, callbacks |-> callbacks, fancy |-> fancy]

HaltOf(m) ==
    IF m.fatal THEN "fatal" ELSE IF m.escaped THEN "panic" ELSE ""

\* The record kept of the last operation.  before and after are the operand
\* stack when the operation was entered and when it returned, fe is the
\* First-Error Slot when it was entered.
Last(op, nargs, nresults, beh, before, after, fe, ret, ok, found, a, p, aux) ==
    [op |-> op, nargs |-> nargs, nresults |-> nresults, beh |-> beh,
     before |-> before, after |-> after, fe |-> fe, ret |-> ret, ok |-> ok,
     found |-> found, a |-> a, p |-> p, aux |-> aux, q |-> 0, flag |-> FALSE,
     v |-> NilV, inner |-> ""]

NoBeh ==
    [kind |-> "ret", n |-> 0, rv |-> NilV, v |-> NilV]

\* The machine's part of the state after an operation that ended in m.
Commit(m) ==
    /\ stack' = m.stack
    /\ first_error' = m.first_error
    /\ shown' = m.shown
    /\ halted' = HaltOf(m)

(* --------------------------- native entry points ----------------------- *)

\* n argument values staged above a function.
Args(n) ==
    [i \in 1..n |-> NumV(i)]

\* The display callbacks that can matter to an operation: a registered
\* callback can be reached only when the UI is ready.
Fancies ==
    IF ui_ready /\ callbacks \cap FancyKeys # {} THEN {"ok", "fail"} ELSE {"ok"}

\* A native caller stages the function f and nargs arguments, calls
\* luaMC_safe_call (Lg, nargs, nresults) and, when the call succeeded,
\* pops the nresults results it asked for.
CallScript(nargs, nresults, beh, fancy) ==
    /\ halted = ""
    /\ UNCHANGED enginevars
    /\ UNCHANGED modvars
    /\ pc = "idle"
    /\ \E m0 \in {[Machine EXCEPT !.stack = stack \o <<FnV("f")>> \o Args(nargs)]} :
       \E r \in {luaMC_safe_call(m0, Env(fancy), nargs, nresults, beh)} :
       \E m1 \in {IF r.ok /\ ~r.m.fatal THEN lua_pop(r.m, nresults) ELSE r.m} :
          /\ Commit(m1)
          /\ last' = Last("safe_call", nargs, nresults, beh, m0.stack, r.m.stack,
                          first_error, ~r.m.escaped /\ ~r.m.fatal, r.ok, FALSE,
                          0, 0, fancy)
    /\ UNCHANGED <<ui_ready, callbacks>>
    /\ UNCHANGED uivars

\* A native caller in the middle of its own work has a value on the stack.
Stage ==
    /\ halted = ""
    /\ UNCHANGED enginevars
    /\ UNCHANGED modvars
    /\ pc = "idle"
    /\ Len(stack) < MaxDepth
    /\ stack' = Append(stack, NumV(0))
    /\ shown' = <<>>
    /\ last' = Last("stage", 0, 0, NoBeh, stack, stack', first_error, TRUE, TRUE,
                    FALSE, 0, 0, "")
    /\ UNCHANGED <<first_error, ui_ready, callbacks, halted>>
    /\ UNCHANGED uivars

\* The native caller pops a value left on the stack (lua_pop (Lg, 1)).
PopResult ==
    /\ halted = ""
    /\ UNCHANGED enginevars
    /\ UNCHANGED modvars
    /\ pc = "idle"
    /\ Len(stack) > 0
    /\ stack' = SubSeq(stack, 1, Len(stack) - 1)
    /\ shown' = <<>>
    /\ last' = Last("pop", 0, 0, NoBeh, stack, stack', first_error, TRUE, TRUE,
                    FALSE, 0, 0, "")
    /\ UNCHANGED <<first_error, ui_ready, callbacks, halted>>
    /\ UNCHANGED uivars

\* A native caller (mc_lua_load) runs a script file with luaMC_safe_dofile;
\* load is what luaL_loadfile finds, beh what the chunk does when called.
\* last keeps the status (a), whether the chunk was called (found) and
\* load (aux).
SafeDofile(load, beh, fancy) ==
    /\ halted = ""
    /\ UNCHANGED enginevars
    /\ UNCHANGED modvars
    /\ pc = "idle"
    /\ \E r \in {luaMC_safe_dofile(Machine, Env(fancy), load, beh)} :
          /\ Commit(r.m)
          /\ last' = [Last("safe_dofile", 0, 0, beh, stack, r.m.stack, first_error,
                           ~r.m.escaped /\ ~r.m.fatal, r.st = 0, r.ran, r.st, 0,
                           load)
                        EXCEPT !.inner = fancy]
    /\ UNCHANGED <<ui_ready, callbacks>>
    /\ UNCHANGED uivars

\* internal.register_system_callback: luaMC_register_system_callback.
RegisterCallback(key) ==
    /\ halted = ""
    /\ UNCHANGED enginevars
    /\ UNCHANGED modvars
    /\ pc = "idle"
    /\ key \notin callbacks
    /\ callbacks' = callbacks \cup {key}
    /\ shown' = <<>>
    /\ last' = Last("register", 0, 0, NoBeh, stack, stack, first_error, TRUE, TRUE,
                    FALSE, 0, 0, key)
    /\ UNCHANGED <<stack, first_error, ui_ready, halted>>
    /\ UNCHANGED uivars

\* What the "event::trigger" callback does when ui_is_ready_handler
\* triggers "ui::ready"; it is called only if it is registered.
TriggerBehaviours ==
    IF "event::trigger" \in callbacks
      THEN {NoBeh, [kind |-> "err", n |-> 0, rv |-> NilV, v |-> StrV("boom")]}
      ELSE {NoBeh}

\* ui_is_ready_handler: ui_is_ready = TRUE; mc_lua_replay_first_error ();
\* mc_lua_trigger_event ("ui::ready").  last keeps what the replay did: how
\* many things it displayed (q), the slot after it (v), and whether it
\* returned with the stack as it found it (flag).
UiReady(fancy, beh) ==
    /\ halted = ""
    /\ UNCHANGED enginevars
    /\ UNCHANGED modvars
    /\ pc = "idle"
    /\ ui_ready' = TRUE
    /\ \E e \in {[ui_ready |-> TRUE, callbacks |-> callbacks, fancy |-> fancy]} :
       \E m1 \in {mc_lua_replay_first_error(Machine, e)} :
       \E m2 \in {mc_lua_trigger_event(m1, e, "ui::ready", beh)} :
          /\ Commit(m2)
          /\ last' = [Last("ui_is_ready", 0, 0, beh, stack, m2.stack, first_error,
                           TRUE, TRUE, FALSE, 0, 0,
                           IF ui_ready THEN "again" ELSE "first")
                        EXCEPT !.q = Len(m1.shown), !.v = m1.first_error,
                               !.flag = HaltOf(m1) = "" /\ m1.stack = stack]
    /\ UNCHANGED callbacks
    /\ UNCHANGED uivars

(* ---------------------------- specification ---------------------------- *)

\* Addresses of native widgets; 0 is NULL.
NAddr == 1

Addrs ==
    1..NAddr

\* Proxy tables the script engine allocates in a run.
MaxProxy == 2

Proxies ==
    1..MaxProxy

\* Widgets made at one address in a run.
MaxGen == 2

NoCur ==
    [a |-> 0, p |-> 0, invoked |-> FALSE, top |-> 0]

NoProxy ==
    [st |-> "none", cw |-> NilV, ref |-> FALSE, meth |-> {}, in_c |-> FALSE,
     gen |-> 0, inits |-> 0]

(* ------------------------- the widget bridge --------------------------- *)

U ==
    [prox |-> prox, fwd |-> fwd, bwd |-> bwd]

CommitU(u) ==
    /\ prox' = u.prox
    /\ fwd' = u.fwd
    /\ bwd' = u.bwd

\* Native code creates a widget at the free address a; cls tells whether it
\* declares a scripting class.
NewWidget(a, cls) ==
    /\ halted = ""
    /\ UNCHANGED enginevars
    /\ UNCHANGED <<timervars, iovars>>
    /\ wdg' = [wdg EXCEPT ![a] = NoWidgetState]
    /\ pc = "idle"
    /\ ~alive[a]
    /\ gen[a] < MaxGen
    /\ alive' = [alive EXCEPT ![a] = TRUE]
    /\ has_class' = [has_class EXCEPT ![a] = cls]
    /\ gen' = [gen EXCEPT ![a] = @ + 1]
    /\ shown' = <<>>
    /\ last' = Last("new_widget", 0, 0, NoBeh, stack, stack, first_error, TRUE, TRUE,
                    FALSE, a, 0, "")
    /\ UNCHANGED <<stack, first_error, ui_ready, callbacks, halted>>
    /\ UNCHANGED <<prox, fwd, bwd, pushed, pc, cur>>

\* luaUI_push_widget_ex (L, w, created_in_c, allow_abstract) for the widget
\* at a; the value pushed is handed to script code, which keeps it.
PushWidget(a, created_in_c, allow_abstract, meth) ==
    /\ halted = ""
    /\ UNCHANGED enginevars
    /\ UNCHANGED modvars
    /\ pc = "idle"
    /\ alive[a]
    /\ fwd[a] # 0 \/ NewProxy(U) # 0
    /\ \E r \in {luaUI_push_widget_ex(Machine, U, a, has_class[a], gen[a],
                                      created_in_c, allow_abstract, meth)} :
          /\ Commit(IF r.exit THEN r.m ELSE lua_pop(r.m, 1))
          /\ CommitU(r.u)
          /\ pushed' = [pushed EXCEPT ![a] = r.p]
          /\ last' = [Last("push_widget", 0, 0, NoBeh, stack, r.m.stack, first_error,
                           ~r.exit, TRUE, ~r.created, a, r.p,
                           IF r.exit THEN "exit" ELSE IF r.created THEN "created"
                           ELSE "existing")
                      EXCEPT !.q = pushed[a]]
    /\ UNCHANGED <<ui_ready, callbacks>>
    /\ UNCHANGED <<alive, has_class, gen, pc, cur>>

\* Script code drops its last reference to the proxy p.
DropRef(p) ==
    /\ halted = ""
    /\ UNCHANGED enginevars
    /\ UNCHANGED modvars
    /\ pc = "idle"
    /\ prox[p].st = "live"
    /\ prox[p].ref
    /\ prox' = [prox EXCEPT ![p].ref = FALSE]
    /\ shown' = <<>>
    /\ last' = Last("drop", 0, 0, NoBeh, stack, stack, first_error, TRUE, TRUE,
                    FALSE, 0, p, "")
    /\ UNCHANGED <<stack, first_error, ui_ready, callbacks, halted>>
    /\ UNCHANGED <<alive, has_class, gen, fwd, bwd, pushed, pc, cur>>

\* The collector finds the proxy p unreachable and marks it for
\* finalization: it is removed from the weak values of ui.weak (Lua 5.2+),
\* and stays a weak key until it is freed.
GcSeparate(p) ==
    /\ halted = ""
    /\ UNCHANGED enginevars
    /\ UNCHANGED modvars
    /\ pc = "idle"
    /\ prox[p].st = "live"
    /\ ~prox[p].ref
    /\ prox' = [prox EXCEPT ![p].st = "fin"]
    /\ fwd' = [a \in Addrs |-> IF fwd[a] = p THEN 0 ELSE fwd[a]]
    /\ shown' = <<>>
    /\ last' = Last("gc_separate", 0, 0, NoBeh, stack, stack, first_error, TRUE, TRUE,
                    FALSE, 0, p, "")
    /\ UNCHANGED <<stack, first_error, ui_ready, callbacks, halted>>
    /\ UNCHANGED <<alive, has_class, gen, bwd, pushed, pc, cur>>

\* The next collection frees the finalized proxy p and removes it from the
\* weak keys of ui.weak.
GcFree(p) ==
    /\ halted = ""
    /\ UNCHANGED enginevars
    /\ UNCHANGED modvars
    /\ pc = "idle"
    /\ prox[p].st = "fin"
    /\ prox' = [prox EXCEPT ![p] = [NoProxy EXCEPT !.st = "freed"]]
    /\ bwd' = [bwd EXCEPT ![p] = 0]
    /\ shown' = <<>>
    /\ last' = Last("gc_free", 0, 0, NoBeh, stack, stack, first_error, TRUE, TRUE,
                    FALSE, 0, p, "")
    /\ UNCHANGED <<stack, first_error, ui_ready, callbacks, halted>>
    /\ UNCHANGED <<alive, has_class, gen, fwd, pushed, pc, cur>>

\* The values script code can hand to a widget method: the proxies it holds
\* a reference to, the proxy whose finalizer (__gc) is running, and values
\* that are no proxies.
ScriptValues ==
    {ProxyV(p) : p \in {q \in Proxies : (prox[q].st = "live" /\ prox[q].ref)
                                         \/ prox[q].st = "fin"}}
    \cup {NumV(1), TableV("", FALSE, FALSE)}

\* A widget method called by script code converts its argument with
\* luaUI_check_widget_ex (L, 1, allow_destroyed, NULL).
CheckWidget(v, allow_destroyed) ==
    /\ halted = ""
    /\ UNCHANGED enginevars
    /\ UNCHANGED modvars
    /\ pc = "idle"
    /\ \E r \in {luaUI_check_widget_ex(U, v, allow_destroyed)} :
          last' = [Last("check_widget", 0, 0, NoBeh, stack, stack, first_error,
                        r.res \in {"ptr", "NULL"}, allow_destroyed, FALSE,
                        r.w, v.n, r.res)
                   EXCEPT !.flag = (v.t = "table" /\ v.n # 0), !.v = v]
    /\ shown' = <<>>
    /\ UNCHANGED <<stack, first_error, ui_ready, callbacks, halted>>
    /\ UNCHANGED uivars

\* What a handler of a widget does when it is called.
HandlerBehaviours ==
    { [kind |-> "ret", n |-> 1, rv |-> BoolV(TRUE), v |-> NilV],
      [kind |-> "ret", n |-> 1, rv |-> NilV, v |-> NilV],
      [kind |-> "ret", n |-> 0, rv |-> NilV, v |-> NilV],
      [kind |-> "err", n |-> 0, rv |-> NilV, v |-> StrV("boom")],
      [kind |-> "err", n |-> 0, rv |-> NilV, v |-> TableV("stop", TRUE, FALSE)],
      [kind |-> "err", n |-> 0, rv |-> NilV, v |-> TableV("", FALSE, TRUE)] }

\* The behaviours that matter to a call of method_name on the widget at a:
\* script code runs only if the fast lookup finds a proxy with that method.
MethodBehaviours(a, method_name) ==
    IF a \in Addrs /\ fwd[a] # 0 /\ method_name \in prox[fwd[a]].meth
      THEN HandlerBehaviours ELSE {NoBeh}

\* Native code stages nargs arguments and calls
\* call_widget_method (w, method_name, nargs, &method_found).
CallMethod(a, method_name, nargs, beh, fancy) ==
    /\ halted = ""
    /\ UNCHANGED enginevars
    /\ UNCHANGED modvars
    /\ pc = "idle"
    /\ alive[a]
    /\ \E m0 \in {[Machine EXCEPT !.stack = stack \o Args(nargs)]} :
       \E r \in {call_widget_method(m0, U, Env(fancy), a, method_name, nargs, beh)} :
          /\ Commit(r.m)
          /\ last' = [Last("call_method", nargs, 1, beh, m0.stack, r.m.stack,
                           first_error, ~r.m.escaped /\ ~r.m.fatal, r.handled,
                           r.method_found, a, fwd[a], method_name)
                      EXCEPT !.flag = r.called]
    /\ UNCHANGED <<ui_ready, callbacks>>
    /\ UNCHANGED uivars

\* mc_lua_notify_on_widget_destruction (w), first part: look the Lua widget
\* up, searching hard, and set its __cwidget__ to false.  If there is no
\* Lua widget nothing is done, and the caller frees the C widget.
NotifyBegin(a, pick) ==
    /\ halted = ""
    /\ UNCHANGED enginevars
    /\ UNCHANGED modvars
    /\ pc = "idle"
    /\ alive[a]
    /\ \E r \in {luaUI_push_registered_widget(Machine, U, a, TRUE, pick)} :
          IF r.ok
            THEN /\ prox' = [prox EXCEPT ![r.p].cw = BoolV(FALSE)]
                 /\ stack' = r.m.stack
                 /\ pc' = "marked"
                 /\ cur' = [a |-> a, p |-> r.p, invoked |-> FALSE, top |-> Len(stack)]
                 /\ last' = Last("notify_begin", 0, 0, NoBeh, stack, r.m.stack,
                                 first_error, TRUE, TRUE, TRUE, a, r.p, "")
                 /\ UNCHANGED <<alive, pushed>>
            ELSE /\ alive' = [alive EXCEPT ![a] = FALSE]
                 /\ pushed' = [pushed EXCEPT ![a] = 0]
                 /\ last' = Last("notify", 0, 0, NoBeh, stack, stack,
                                 first_error, TRUE, TRUE, FALSE, a, 0, "")
                 /\ UNCHANGED <<prox, stack, pc, cur>>
    /\ shown' = <<>>
    /\ UNCHANGED <<first_error, ui_ready, callbacks, halted>>
    /\ UNCHANGED <<has_class, gen, fwd, bwd>>

\* Second part: call_widget_method (w, "on_destroy", 0, NULL).
NotifyOnDestroy(beh, fancy) ==
    /\ halted = ""
    /\ UNCHANGED enginevars
    /\ UNCHANGED modvars
    /\ pc = "marked"
    /\ \E r \in {call_widget_method(Machine, U, Env(fancy), cur.a, "on_destroy", 0, beh)} :
          /\ Commit(r.m)
          /\ cur' = [cur EXCEPT !.invoked = r.called]
          /\ last' = [Last("on_destroy", 0, 1, beh, stack, r.m.stack, first_error,
                           ~r.m.escaped /\ ~r.m.fatal, r.handled, r.method_found,
                           cur.a, cur.p, "on_destroy")
                      EXCEPT !.flag = r.called]
    /\ pc' = "called"
    /\ UNCHANGED <<ui_ready, callbacks>>
    /\ UNCHANGED <<alive, has_class, gen, prox, fwd, bwd, pushed>>

\* Third part: pop the Lua object, unregister_widget (Lg, w), LUAMC_UNGUARD;
\* then the caller frees the C widget.  ui.weak has not changed since the
\* first part, so a hard search finds the same proxy again.
NotifyEnd ==
    /\ halted = ""
    /\ UNCHANGED enginevars
    /\ UNCHANGED modvars
    /\ pc = "called"
    /\ \E m \in {LUAMC_UNGUARD_BY([Machine EXCEPT !.stack = SubSeq(stack, 1, Len(stack) - 1)],
                                  cur.top, 0)} :
          /\ stack' = m.stack
          /\ halted' = HaltOf(m)
    /\ CommitU(unregister_widget(U, cur.a, cur.p))
    /\ alive' = [alive EXCEPT ![cur.a] = FALSE]
    /\ pushed' = [pushed EXCEPT ![cur.a] = 0]
    /\ pc' = "idle"
    /\ cur' = NoCur
    /\ last' = [Last("notify", 0, 0, NoBeh, stack, stack', first_error, TRUE, TRUE,
                     TRUE, cur.a, cur.p, "")
                EXCEPT !.flag = cur.invoked]
    /\ UNCHANGED <<first_error, ui_ready, callbacks, shown>>
    /\ UNCHANGED <<has_class, gen>>

(* ------------------------ calls in progress ---------------------------- *)

\* How many safe calls may be in progress at once.
MaxNest == 2

\* How many times the engine may be restarted.
MaxRestarts == 1

\* One entry of chain.  kind "call": luaMC_safe_call, entered by the native
\* function op with the guard height base, is running its script function.
\* kind "loop": the C function op, called by script code with nargs
\* arguments that start above the height base, is running an event loop.
\* L is the Lua state the entry belongs to; inner is how the last safe
\* call made inside a "call" entry ended; unlocked is whether
\* timer.unlock() was called since the entry was made.
Frame(kind, op, nargs, nresults, base, L) ==
    [kind |-> kind, op |-> op, nargs |-> nargs, nresults |-> nresults,
     base |-> base, L |-> L, inner |-> "", unlocked |-> FALSE]

NoFrame ==
    Frame("none", "", 0, 0, 0, 0)

Innermost(ch) ==
    IF ch = <<>> THEN NoFrame ELSE ch[Len(ch)]

Outer(ch) ==
    SubSeq(ch, 1, Len(ch) - 1)

Calls(ch) ==
    Cardinality({i \in 1..Len(ch) : ch[i].kind = "call"})

\* An entry of the chain belongs to a Lua state that was closed.
Stale ==
    \E i \in 1..Len(chain) : chain[i].L # Lg

\* lua_gettop (Lg) in native code reached with the calls ch in progress:
\* the index is relative to the frame of the C function that runs the
\* event loop, if there is one.
FrameTop(stk, ch) ==
    Len(stk) - Innermost(ch).base

\* The chain after a safe call made inside its innermost script function
\* has ended.
NoteInner(ch, ok) ==
    IF Len(ch) >= 2
      THEN [ch EXCEPT ![Len(ch) - 1].inner = IF ok THEN "ok" ELSE "err"]
      ELSE ch

\* Native code, at the top level or in an event loop, may call script code.
NativeRuns ==
    /\ halted = ""
    /\ pc = "idle"
    /\ ~Stale
    /\ Innermost(chain).kind # "call"
    /\ Calls(chain) < MaxNest

\* Script code runs in the Lua state in use.
ScriptRuns ==
    /\ halted = ""
    /\ pc = "idle"
    /\ ~Stale
    /\ Innermost(chain).kind = "call"

\* An mc_lua_eat_key that reports a key as consumed only when the callback
\* returned true.
eat_key_consumed_only_on_true(ok, v) ==
    ok /\ lua_toboolean(v)

\* mc_lua_eat_key: "consumed = luaMC_pop_boolean (Lg)" when luaMC_safe_call
\* succeeded with the result v, "consumed = TRUE" when it failed.
eat_key_consumed(ok, v) ==
    IF ok THEN lua_toboolean(v) ELSE TRUE

\* mc_lua_eat_key up to the moment the "keymap::eat" callback runs; the
\* whole function when no callback is registered.  In the record of a
\* whole mc_lua_eat_key, last.found is the value returned (consumed),
\* last.p what lua_gettop (Lg) gave when the function was entered and
\* last.a what it gives when the function returns.
EatKeyEnter ==
    /\ NativeRuns
    /\ \E cb \in {luaMC_get_system_callback(Machine, Env("ok"), "keymap::eat")} :
         IF cb.ok
           THEN /\ stack' = luaMC_pcall_enter(lua_push(cb.m, NumV(1)), 1).stack
                /\ chain' = Append(chain, Frame("call", "eat_key", 1, 1,
                                                Len(stack) + 2, Lg))
                /\ last' = Last("enter", 1, 1, NoBeh, stack, stack', first_error,
                                FALSE, FALSE, FALSE, 0, 0, "eat_key")
           ELSE /\ last' = Last("eat_key", 1, 1, NoBeh, stack, stack, first_error,
                                TRUE, FALSE, FALSE, FrameTop(cb.m.stack, chain),
                                FrameTop(stack, chain), "no callback")
                /\ UNCHANGED <<stack, chain>>
    /\ shown' = <<>>
    /\ UNCHANGED <<first_error, ui_ready, callbacks, halted, restart_requested, Lg>>
    /\ UNCHANGED uivars
    /\ UNCHANGED modvars

\* A native caller stages a function and nargs arguments and enters
\* luaMC_safe_call (Lg, nargs, nresults): the script function runs.
SafeCallEnter(nargs, nresults) ==
    /\ NativeRuns
    /\ stack' = luaMC_pcall_enter(
                   [Machine EXCEPT !.stack = stack \o <<FnV("f")>> \o Args(nargs)],
                   nargs).stack
    /\ chain' = Append(chain, Frame("call", "safe_call", nargs, nresults,
                                    Len(stack) + 1 + nargs, Lg))
    /\ last' = Last("enter", nargs, nresults, NoBeh, stack, stack', first_error,
                    FALSE, FALSE, FALSE, 0, 0, "safe_call")
    /\ shown' = <<>>
    /\ UNCHANGED <<first_error, ui_ready, callbacks, halted, restart_requested, Lg>>
    /\ UNCHANGED uivars
    /\ UNCHANGED modvars

\* l_request_lua_restart: script code calls internal.request_lua_restart().
RequestRestart ==
    /\ ScriptRuns
    /\ ~restart_requested
    /\ Lg < MaxRestarts
    /\ restart_requested' = TRUE
    /\ shown' = <<>>
    /\ last' = Last("request_restart", 0, 0, NoBeh, stack, stack, first_error,
                    TRUE, TRUE, FALSE, 0, 0, "")
    /\ UNCHANGED <<stack, first_error, ui_ready, callbacks, halted, Lg, chain>>
    /\ UNCHANGED uivars
    /\ UNCHANGED modvars

\* Script code calls a C function that runs an event loop, with nvals
\* arguments: l_confirm and l_input take none or more, l_dialog_run takes
\* the dialog.  The arguments are the frame of the C function.
OpenDialog(nvals) ==
    /\ ScriptRuns
    /\ ui_ready
    /\ stack' = stack \o Args(nvals)
    /\ chain' = Append(chain, Frame("loop",
                                    IF nvals = 0 THEN "l_confirm" ELSE "l_dialog_run",
                                    nvals, 1, Len(stack), Lg))
    /\ shown' = <<>>
    /\ last' = Last("open", nvals, 1, NoBeh, stack, stack', first_error,
                    FALSE, FALSE, FALSE, 0, 0, "")
    /\ UNCHANGED <<first_error, ui_ready, callbacks, halted, restart_requested, Lg>>
    /\ UNCHANGED uivars
    /\ UNCHANGED modvars

\* The event loop ends and the C function returns to the script code that
\* called it.  When the Lua state of that code was closed meanwhile, the
\* C function and the script work on freed memory.
CloseDialog ==
    /\ halted = ""
    /\ pc = "idle"
    /\ Innermost(chain).kind = "loop"
    /\ IF Innermost(chain).L = Lg
         THEN /\ stack' = SubSeq(stack, 1, Innermost(chain).base)
              /\ halted' = ""
         ELSE /\ stack' = stack
              /\ halted' = "undefined"
    /\ chain' = Outer(chain)
    /\ shown' = <<>>
    /\ last' = Last("close", 0, 0, NoBeh, stack, stack', first_error,
                    TRUE, TRUE, FALSE, 0, 0, "")
    /\ UNCHANGED <<first_error, ui_ready, callbacks, restart_requested, Lg>>
    /\ UNCHANGED uivars
    /\ UNCHANGED modvars

\* What the bootstrap file does when a restart runs it.
BootBehaviours ==
    {NoBeh, [kind |-> "err", n |-> 0, rv |-> NilV, v |-> StrV("boom")]}

\* The script function of the innermost safe call ends as beh says, and
\* the native function that made the call goes on to its end: a caller of
\* luaMC_safe_call pops the results it asked for; mc_lua_eat_key pops the
\* boolean and calls check_for_restart; mc_lua_execute_ready_timeouts
\* clears lock.  load and boot are what a restart
\* finds when it loads the core.
ScriptReturns(beh, fancy, load, boot) ==
    /\ ScriptRuns
    /\ \E c \in {Innermost(chain)} :
       \E r \in {luaMC_safe_call_leave(Machine, Env(fancy), c.base, c.nargs,
                                        c.nresults, beh)} :
       \E m1 \in {IF r.ok /\ ~r.m.fatal THEN lua_pop(r.m, c.nresults) ELSE r.m} :
       \E rest \in {NoteInner(Outer(chain), r.ok)} :
       \E k \in {IF c.op = "eat_key" /\ ~r.m.escaped /\ ~r.m.fatal
                   THEN check_for_restart(m1, Env(fancy), restart_requested,
                                          FrameTop(m1.stack, rest), load, boot, NoBeh)
                   ELSE [m |-> m1, callbacks |-> callbacks,
                         restart_requested |-> restart_requested,
                         restarted |-> FALSE]} :
          /\ Commit(k.m)
          /\ callbacks' = k.callbacks
          /\ restart_requested' = k.restart_requested
          /\ Lg' = IF k.restarted THEN Lg + 1 ELSE Lg
          /\ chain' = IF HaltOf(k.m) = "" THEN rest ELSE chain
          /\ lock' = IF c.op = "timer" /\ HaltOf(k.m) = "" THEN FALSE ELSE lock
          /\ last' = [Last(c.op, c.nargs, c.nresults, beh, stack, r.m.stack,
                           first_error, ~r.m.escaped /\ ~r.m.fatal, r.ok,
                           c.op = "eat_key"
                             /\ eat_key_consumed(r.ok, IF r.ok /\ ~r.m.fatal
                                                         THEN lua_at(r.m, -1) ELSE NilV),
                           IF c.op # "eat_key" THEN 0
                           ELSE IF k.restarted THEN Len(k.m.stack)
                           ELSE FrameTop(k.m.stack, rest),
                           IF c.op # "eat_key" THEN 0
                           ELSE c.base - 2 - Innermost(rest).base,
                           IF k.restarted THEN "restarted"
                           ELSE IF c.op = "eat_key" /\ restart_requested
                                   /\ ~r.m.escaped /\ ~r.m.fatal
                             THEN "rejected" ELSE "")
                        EXCEPT !.q = Len(rest), !.flag = restart_requested,
                               !.inner = c.inner,
                               !.v = IF r.ok /\ c.nresults > 0 /\ ~r.m.fatal
                                       THEN lua_at(r.m, -1) ELSE NilV]
    /\ UNCHANGED <<ui_ready, next_timeout, now>>
    /\ UNCHANGED uivars
    /\ UNCHANGED restvars

\* The modules' state when the program starts.
InitMod ==
    /\ lock = FALSE
    /\ next_timeout = 0
    /\ now = 0
    /\ wdg = [a \in Addrs |-> NoWidgetState]
    /\ dirh = [h \in DirHandles |-> NoDir]
    /\ cell = [c \in Cells |-> NoCell]

Init ==
    /\ stack = <<>>
    /\ first_error = NilV
    /\ ui_ready = FALSE
    /\ callbacks = {}
    /\ shown = <<>>
    /\ halted = ""
    /\ restart_requested = FALSE
    /\ Lg = 0
    /\ chain = <<>>
    /\ InitMod
    /\ last = Last("init", 0, 0, NoBeh, <<>>, <<>>, NilV, TRUE, TRUE, FALSE, 0, 0, "")
    /\ alive = [a \in Addrs |-> FALSE]
    /\ has_class = [a \in Addrs |-> FALSE]
    /\ gen = [a \in Addrs |-> 0]
    /\ prox = [p \in Proxies |-> NoProxy]
    /\ fwd = [a \in Addrs |-> 0]
    /\ bwd = [p \in Proxies |-> 0]
    /\ pushed = [a \in Addrs |-> 0]
    /\ pc = "idle"
    /\ cur = NoCur

Next ==
    \/ \E nargs \in 0..MaxArgs, nresults \in 0..MaxResults, beh \in Behaviours,
          fancy \in Fancies :
          CallScript(nargs, nresults, beh, fancy)
    \/ Stage
    \/ PopResult
    \/ \E key \in SystemKeys : RegisterCallback(key)
    \/ \E fancy \in Fancies \cup {f \in {"fail"} : callbacks \cap FancyKeys # {}},
          beh \in TriggerBehaviours :
          UiReady(fancy, beh)

Spec ==
    Init /\ [][Next]_vars

\* Running script files: files are run before and after the UI is ready,
\* with and without display callbacks, by callers that may hold a value on
\* the stack.
NextLoad ==
    \/ \E load \in Loads, fancy \in Fancies :
          \E beh \in (IF load = "ok" THEN Behaviours ELSE {NoBeh}) :
             SafeDofile(load, beh, fancy)
    \/ Stage
    \/ PopResult
    \/ \E key \in SystemKeys : RegisterCallback(key)
    \/ \E fancy \in Fancies \cup {f \in {"fail"} : callbacks \cap FancyKeys # {}},
          beh \in TriggerBehaviours :
          UiReady(fancy, beh)

SpecLoad ==
    Init /\ [][NextLoad]_vars

(* ------------------------------ the timer ------------------------------ *)

\* The largest reading of the clock.
MaxTime == 2

\* The times a script can pass to timer.set_next_timeout; 0 cancels.
Times ==
    0..MaxTime

\* The test of mc_lua_execute_ready_timeouts without the lock.
timer_is_due_ignoring_lock(lk, nt, nw) ==
    nt # 0 /\ nt <= nw

\* mc_lua_execute_ready_timeouts: "if (lock) return;" and then
\* "next_timeout != 0 && next_timeout <= mc_lua_timer_now ()".
timer_is_due(lk, nt, nw) ==
    ~lk /\ nt # 0 /\ nt <= nw

\* The timer invocations in progress.
TimerFrames(ch) ==
    {i \in 1..Len(ch) : ch[i].op = "timer"}

\* The clock advances.
Tick ==
    /\ halted = ""
    /\ now < MaxTime
    /\ now' = now + 1
    /\ UNCHANGED <<lock, next_timeout>>
    /\ UNCHANGED callvars
    /\ UNCHANGED uivars
    /\ UNCHANGED enginevars
    /\ UNCHANGED restvars

\* l_set_next_timeout: script code calls timer.set_next_timeout (tm).
SetNextTimeout(tm) ==
    /\ ScriptRuns
    /\ next_timeout' = tm
    /\ shown' = <<>>
    /\ last' = [Last("set_next_timeout", 1, 0, NoBeh, stack, stack, first_error,
                     TRUE, TRUE, FALSE, 0, 0, "")
                EXCEPT !.q = tm]
    /\ UNCHANGED <<stack, first_error, ui_ready, callbacks, halted>>
    /\ UNCHANGED <<lock, now>>
    /\ UNCHANGED uivars
    /\ UNCHANGED enginevars
    /\ UNCHANGED restvars

\* l_unlock: script code calls timer.unlock (), which is
\* mc_lua_timer_unlock ().  Every timer invocation in progress has then
\* seen an unlock.
Unlock ==
    /\ ScriptRuns
    /\ lock' = FALSE
    /\ chain' = [i \in 1..Len(chain) |->
                   IF chain[i].op = "timer"
                     THEN [chain[i] EXCEPT !.unlocked = TRUE] ELSE chain[i]]
    /\ shown' = <<>>
    /\ last' = [Last("unlock", 0, 0, NoBeh, stack, stack, first_error,
                     TRUE, TRUE, FALSE, 0, 0, "")
                EXCEPT !.flag = lock]
    /\ UNCHANGED <<stack, first_error, ui_ready, callbacks, halted>>
    /\ UNCHANGED <<next_timeout, now>>
    /\ UNCHANGED <<restart_requested, Lg>>
    /\ UNCHANGED uivars
    /\ UNCHANGED restvars

\* mc_lua_execute_ready_timeouts, called by the event loops, up to the
\* moment the "timer::execute_ready_timeouts" callback runs; the whole
\* function when it returns at once or finds no callback.  last.q is the
\* number of timer invocations that were in progress, last.flag whether
\* each of them has seen an unlock.
TimerEnter ==
    /\ NativeRuns
    /\ \E due \in {timer_is_due(lock, next_timeout, now)} :
       \E cb \in {luaMC_get_system_callback(Machine, Env("ok"),
                                            "timer::execute_ready_timeouts")} :
         IF due /\ cb.ok
           THEN /\ lock' = TRUE
                /\ stack' = luaMC_pcall_enter(cb.m, 0).stack
                /\ chain' = Append(chain, Frame("call", "timer", 0, 0,
                                                Len(stack) + 1, Lg))
                /\ last' = [Last("enter", 0, 0, NoBeh, stack, stack', first_error,
                                 FALSE, FALSE, TRUE, 0, 0, "timer")
                            EXCEPT !.q = Cardinality(TimerFrames(chain)),
                                   !.flag = \A i \in TimerFrames(chain) :
                                               chain[i].unlocked]
           ELSE /\ lock' = IF due THEN FALSE ELSE lock
                /\ last' = [Last("timer", 0, 0, NoBeh, stack, stack, first_error,
                                 TRUE, FALSE, FALSE, 0, 0,
                                 IF lock THEN "locked"
                                 ELSE IF ~due THEN "not due" ELSE "no callback")
                            EXCEPT !.q = Cardinality(TimerFrames(chain))]
                /\ UNCHANGED <<stack, chain>>
    /\ shown' = <<>>
    /\ UNCHANGED <<first_error, ui_ready, callbacks, halted, restart_requested, Lg>>
    /\ UNCHANGED <<next_timeout, now>>
    /\ UNCHANGED uivars
    /\ UNCHANGED restvars

\* The timer: the UI is up, the timer module of the core has or has not
\* registered its callback, and a script may have scheduled a function
\* while the core was loaded.
InitTimer ==
    /\ stack = <<>>
    /\ first_error = NilV
    /\ ui_ready = TRUE
    /\ callbacks \in {{"keymap::eat", "timer::execute_ready_timeouts"},
                      {"keymap::eat"}}
    /\ shown = <<>>
    /\ halted = ""
    /\ restart_requested = FALSE
    /\ Lg = 0
    /\ chain = <<>>
    /\ lock = FALSE
    /\ next_timeout \in Times
    /\ now = 0
    /\ wdg = [a \in Addrs |-> NoWidgetState]
    /\ dirh = [h \in DirHandles |-> NoDir]
    /\ cell = [c \in Cells |-> NoCell]
    /\ last = Last("init", 0, 0, NoBeh, <<>>, <<>>, NilV, TRUE, TRUE, FALSE, 0, 0, "")
    /\ alive = [a \in Addrs |-> FALSE]
    /\ has_class = [a \in Addrs |-> FALSE]
    /\ gen = [a \in Addrs |-> 0]
    /\ prox = [p \in Proxies |-> NoProxy]
    /\ fwd = [a \in Addrs |-> 0]
    /\ bwd = [p \in Proxies |-> 0]
    /\ pushed = [a \in Addrs |-> 0]
    /\ pc = "idle"
    /\ cur = NoCur

NextTimer ==
    \/ Tick
    \/ TimerEnter
    \/ Unlock
    \/ \E tm \in Times : SetNextTimeout(tm)
    \/ EatKeyEnter
    \/ OpenDialog(0)
    \/ CloseDialog
    \/ \E beh \in Behaviours, fancy \in Fancies :
          ScriptReturns(beh, fancy, "ok", NoBeh)

SpecTimer ==
    InitTimer /\ [][NextTimer]_vars

\* The widget bridge: widgets exist once the UI is up.
InitUI ==
    /\ stack = <<>>
    /\ first_error = NilV
    /\ ui_ready = TRUE
    /\ callbacks = {}
    /\ shown = <<>>
    /\ halted = ""
    /\ restart_requested = FALSE
    /\ Lg = 0
    /\ chain = <<>>
    /\ InitMod
    /\ last = Last("init", 0, 0, NoBeh, <<>>, <<>>, NilV, TRUE, TRUE, FALSE, 0, 0, "")
    /\ alive = [a \in Addrs |-> FALSE]
    /\ has_class = [a \in Addrs |-> FALSE]
    /\ gen = [a \in Addrs |-> 0]
    /\ prox = [p \in Proxies |-> NoProxy]
    /\ fwd = [a \in Addrs |-> 0]
    /\ bwd = [p \in Proxies |-> 0]
    /\ pushed = [a \in Addrs |-> 0]
    /\ pc = "idle"
    /\ cur = NoCur

NextUI ==
    \/ \E a \in Addrs, cls \in BOOLEAN : NewWidget(a, cls)
    \/ \E a \in Addrs, created_in_c \in BOOLEAN, allow_abstract \in BOOLEAN :
          \E meth \in (IF fwd[a] # 0 THEN {{}} ELSE MethodSets) :
             PushWidget(a, created_in_c, allow_abstract, meth)
    \/ \E p \in Proxies : DropRef(p)
    \/ \E p \in Proxies : GcSeparate(p)
    \/ \E p \in Proxies : GcFree(p)
    \/ \E v \in ScriptValues, allow_destroyed \in BOOLEAN : CheckWidget(v, allow_destroyed)
    \/ \E a \in Addrs, method_name \in Methods, nargs \in 0..MaxArgs :
          \E beh \in MethodBehaviours(a, method_name), fancy \in Fancies :
             CallMethod(a, method_name, nargs, beh, fancy)
    \/ \E a \in Addrs : \E pick \in Picks(U, a) : NotifyBegin(a, pick)
    \/ \E beh \in MethodBehaviours(cur.a, "on_destroy"), fancy \in Fancies :
          NotifyOnDestroy(beh, fancy)
    \/ NotifyEnd

SpecUI ==
    InitUI /\ [][NextUI]_vars

(* ------------------------- destroying widgets -------------------------- *)

\* mc_lua_notify_on_widget_destruction (w) as a whole; pick is what the
\* hard search finds, beh what the "on_destroy" handler does.  Returns
\* [m, u, p]: p is the proxy that was marked, 0 if there was none.
mc_lua_notify_on_widget_destruction(m, u, e, w, pick, beh) ==
    Only({
      IF g.ok
        THEN Only({
               Only({ IF r.m.escaped \/ r.m.fatal
                        THEN [m |-> r.m, u |-> u1, p |-> g.p]
                        ELSE [m |-> LUAMC_UNGUARD_BY(lua_pop(r.m, 1), lua_gettop(m), 0),
                              u |-> unregister_widget(u1, w, g.p), p |-> g.p]
                      : r \in {call_widget_method(g.m, u1, e, w, "on_destroy", 0, beh)} })
               : u1 \in {[u EXCEPT !.prox[g.p].cw = BoolV(FALSE)]} })
        ELSE [m |-> m, u |-> u, p |-> 0]
      : g \in {luaUI_push_registered_widget(m, u, w, TRUE, pick)} })

\* The widget at a is added to a dialog: w->owner is set.
MapWidget(a) ==
    /\ halted = ""
    /\ pc = "idle"
    /\ alive[a]
    /\ ~wdg[a].owner
    /\ wdg' = [wdg EXCEPT ![a].owner = TRUE]
    /\ shown' = <<>>
    /\ last' = Last("map_widget", 0, 0, NoBeh, stack, stack, first_error, TRUE, TRUE,
                    FALSE, a, fwd[a], "")
    /\ UNCHANGED <<stack, first_error, ui_ready, callbacks, halted>>
    /\ UNCHANGED uivars
    /\ UNCHANGED enginevars
    /\ UNCHANGED <<timervars, iovars>>

\* l_widget_destroy: script code calls destroy () on the value v.  last.aux
\* is what luaUI_check_widget_ex gave, or "mapped" for the error about a
\* widget mapped in a dialog; last.found tells whether g_free (w) was
\* called, last.flag whether w was then a widget that exists and for which
\* the proxy was made, last.inner whether v is a proxy.  A w that was
\* freed before is read (w->owner) and freed again: the outcome is not
\* defined, garbage is what the read gives.
DestroyWidget(v, pick, beh, fancy, garbage) ==
    /\ halted = ""
    /\ pc = "idle"
    /\ \E c \in {luaUI_check_widget_ex(U, v, TRUE)} :
       \E mine \in {c.res = "ptr" /\ alive[c.w] /\ prox[v.n].gen = gen[c.w]} :
       \E rec \in {[Last("destroy", 1, 0, beh, stack, stack, first_error, TRUE,
                         c.res \in {"ptr", "NULL"}, FALSE, c.w, v.n, c.res)
                    EXCEPT !.v = v, !.flag = mine,
                           !.inner = IF v.t = "table" /\ v.n # 0
                                       THEN "proxy" ELSE "other"]} :
         IF c.res # "ptr"
           THEN /\ last' = rec
                /\ shown' = <<>>
                /\ UNCHANGED <<stack, first_error, halted>>
                /\ UNCHANGED <<alive, prox, fwd, bwd, pushed>>
         ELSE IF (IF alive[c.w] THEN wdg[c.w].owner ELSE garbage)
           THEN /\ last' = [rec EXCEPT !.aux = "mapped", !.ok = FALSE]
                /\ shown' = <<>>
                /\ UNCHANGED <<stack, first_error, halted>>
                /\ UNCHANGED <<alive, prox, fwd, bwd, pushed>>
         ELSE IF ~alive[c.w]
           THEN /\ last' = [rec EXCEPT !.found = TRUE, !.ret = FALSE]
                /\ shown' = <<>>
                /\ halted' = "undefined"
                /\ UNCHANGED <<stack, first_error>>
                /\ UNCHANGED <<alive, prox, fwd, bwd, pushed>>
         ELSE \E r \in {mc_lua_notify_on_widget_destruction(
                          Machine, U, Env(fancy), c.w, pick, beh)} :
                /\ Commit(r.m)
                /\ CommitU(r.u)
                /\ alive' = [alive EXCEPT ![c.w] = HaltOf(r.m) # ""]
                /\ pushed' = [pushed EXCEPT ![c.w] = IF HaltOf(r.m) = "" THEN 0 ELSE @]
                /\ last' = [rec EXCEPT !.found = HaltOf(r.m) = "",
                                       !.ret = HaltOf(r.m) = "",
                                       !.after = r.m.stack,
                                       !.q = r.p]
    /\ UNCHANGED <<ui_ready, callbacks>>
    /\ UNCHANGED <<has_class, gen, pc, cur>>
    /\ UNCHANGED enginevars
    /\ UNCHANGED modvars

\* The widget bridge with widgets mapped in dialogs and destroyed by
\* script code.
NextDestroy ==
    \/ NextUI
    \/ \E a \in Addrs : MapWidget(a)
    \/ \E v \in ScriptValues, garbage \in BOOLEAN :
          \E w \in {luaUI_check_widget_ex(U, v, TRUE).w} :
          \E pick \in (IF w \in Addrs THEN Picks(U, w) ELSE {0}),
             beh \in (IF w \in Addrs /\ alive[w] /\ ~wdg[w].owner
                        THEN MethodBehaviours(w, "on_destroy") ELSE {NoBeh}),
             fancy \in Fancies :
             DestroyWidget(v, pick, beh, fancy, garbage /\ w \in Addrs /\ ~alive[w])

SpecDestroy ==
    InitUI /\ [][NextDestroy]_vars

(* --------------------------- directory handles ------------------------- *)

\* The entries left after the leading "." and ".." are skipped.
RECURSIVE SkipDots(_)
SkipDots(entries) ==
    IF entries # <<>> /\ Head(entries) \in {".", ".."}
      THEN SkipDots(Tail(entries)) ELSE entries

\* An l_dir_close that leaves the pointer in the handle.
l_dir_close_keeps_pointer(d) ==
    IF d.dir = "open"
      THEN [d EXCEPT !.closedirs = @ + 1]
      ELSE d

\* l_dir_close: "if (dir_obj->dir) { mc_closedir (dir_obj->dir);
\* dir_obj->dir = NULL; }".
l_dir_close(d) ==
    IF d.dir = "open"
      THEN [d EXCEPT !.closedirs = @ + 1, !.dir = "NULL"]
      ELSE d

\* l_dir_next: returns [d, n, name], n the number of values returned.
l_dir_next(d) ==
    IF d.dir = "open"
      THEN Only({ IF rest # <<>>
                    THEN [d |-> [d EXCEPT !.left = Tail(rest)], n |-> 2,
                          name |-> Head(rest)]
                    ELSE [d |-> l_dir_close([d EXCEPT !.left = <<>>]), n |-> 0,
                          name |-> ""]
                  : rest \in {SkipDots(d.left)} })
      ELSE [d |-> d, n |-> 0, name |-> ""]

\* The part of the state the directory actions leave alone.
dirrest ==
    <<stack, first_error, ui_ready, callbacks, halted, uivars, enginevars,
      timervars, wdg, cell>>

\* l_opendir: script code calls fs.opendir (path); found tells whether
\* mc_opendir succeeds, listing is what the directory holds.
Opendir(h, found, listing) ==
    /\ halted = ""
    /\ dirh[h].st = "none"
    /\ \A g \in DirHandles : g < h => dirh[g].st # "none"
    /\ dirh' = [dirh EXCEPT ![h] =
                  [st |-> "live", dir |-> IF found THEN "open" ELSE "NULL",
                   left |-> IF found THEN listing ELSE <<>>, closedirs |-> 0,
                   opened |-> found]]
    /\ shown' = <<>>
    /\ last' = [Last("opendir", 1, IF found THEN 1 ELSE 3, NoBeh, stack, stack,
                     first_error, TRUE, found, found, 0, h, "")
                EXCEPT !.q = Len(listing)]
    /\ UNCHANGED dirrest

\* Script code calls next () on the handle h.  last.found tells whether the
\* native directory was open before the call, last.aux is the name given.
DirNext(h) ==
    /\ halted = ""
    /\ dirh[h].st = "live"
    /\ \E r \in {l_dir_next(dirh[h])} :
          /\ dirh' = [dirh EXCEPT ![h] = r.d]
          /\ last' = [Last("dir_next", 1, r.n, NoBeh, stack, stack, first_error,
                           TRUE, r.n > 0, dirh[h].dir = "open", 0, h, r.name)
                      EXCEPT !.q = Len(dirh[h].left)]
    /\ shown' = <<>>
    /\ UNCHANGED dirrest

\* Script code calls close () on the handle h.
DirClose(h) ==
    /\ halted = ""
    /\ dirh[h].st = "live"
    /\ dirh' = [dirh EXCEPT ![h] = l_dir_close(dirh[h])]
    /\ shown' = <<>>
    /\ last' = Last("dir_close", 1, 0, NoBeh, stack, stack, first_error,
                    TRUE, TRUE, dirh[h].dir = "open", 0, h, "")
    /\ UNCHANGED dirrest

\* The collector finalizes the handle h, which script code has dropped:
\* __gc is l_dir_close.
DirGc(h) ==
    /\ halted = ""
    /\ dirh[h].st = "live"
    /\ dirh' = [dirh EXCEPT ![h] = [l_dir_close(dirh[h]) EXCEPT !.st = "collected"]]
    /\ shown' = <<>>
    /\ last' = Last("dir_gc", 1, 0, NoBeh, stack, stack, first_error,
                    TRUE, TRUE, dirh[h].dir = "open", 0, h, "")
    /\ UNCHANGED dirrest

NextDir ==
    \/ \E h \in DirHandles, found \in BOOLEAN :
          \E listing \in (IF found
                            THEN {<<>>, <<".", "..">>, <<".", "..", "a">>,
                                  <<"a", ".", "b">>}
                            ELSE {<<>>}) :
             Opendir(h, found, listing)
    \/ \E h \in DirHandles : DirNext(h)
    \/ \E h \in DirHandles : DirClose(h)
    \/ \E h \in DirHandles : DirGc(h)

SpecDir ==
    Init /\ [][NextDir]_vars

(* ------------------------------- luafs --------------------------------- *)

\* handle_returned_pair: returns [m, res], res 0 or -1.
handle_returned_pair(m) ==
    IF ~lua_isnil(lua_at(m, -1))
      THEN [m |-> lua_pop(m, 2), res |-> -1]
      ELSE [m |-> lua_pop(m, 2), res |-> 0]

\* handle_returned_pair__as_cellref with lua_ref_cell__new: returns
\* [m, made, val]; made tells whether a cell was made, val is the value it
\* refers to.
handle_returned_pair__as_cellref(m) ==
    IF ~lua_isnil(lua_at(m, -1))
      THEN [m |-> lua_pop(m, 2), made |-> FALSE, val |-> NilV]
      ELSE [m |-> lua_pop(lua_pop(m, 1), 1), made |-> TRUE, val |-> lua_at(m, -2)]

\* lua_ref_cell__push_value: reads the cell.
lua_ref_cell__push_value(cl) ==
    [cl EXCEPT !.stale_reads = IF cl.st = "disposed" THEN @ + 1 ELSE @]

\* lua_ref_cell__dispose: luaL_unref and g_free; reads the cell.
lua_ref_cell__dispose(cl) ==
    [cl EXCEPT !.stale_reads = IF cl.st = "disposed" THEN @ + 1 ELSE @,
               !.unrefs = @ + 1, !.frees = @ + 1, !.st = "disposed"]

\* The part of the state the luafs actions leave alone.
luafsrest ==
    <<ui_ready, callbacks, uivars, enginevars, timervars, wdg, dirh>>

\* luafs_open (kind "file") and luafs_opendir (kind "dir") for the handle
\* that will live in the cell c.
LuafsOpen(c, kind, beh, fancy) ==
    /\ halted = ""
    /\ cell[c].st = "none"
    /\ \A d \in Cells : d < c => cell[d].st # "none"
    /\ \E cb \in {luaMC_get_system_callback(
                    Machine, Env(fancy),
                    IF kind = "file" THEN "luafs::open" ELSE "luafs::opendir")} :
       \E nargs \in {IF kind = "file" THEN 4 ELSE 1} :
         IF cb.ok
           THEN \E r \in {luaMC_safe_call([cb.m EXCEPT !.stack = @ \o Args(nargs)],
                                          Env(fancy), nargs, 2, beh)} :
                \E h \in {IF r.ok /\ ~r.m.fatal /\ ~r.m.escaped
                            THEN handle_returned_pair__as_cellref(r.m)
                            ELSE [m |-> r.m, made |-> FALSE, val |-> NilV]} :
                  /\ Commit(h.m)
                  /\ cell' = IF h.made
                               THEN [cell EXCEPT ![c] = [NoCell EXCEPT !.st = "live",
                                                                       !.kind = kind,
                                                                       !.val = h.val]]
                               ELSE cell
                  /\ last' = [Last("luafs_open", nargs, 2, beh, stack, h.m.stack,
                                   first_error, ~r.m.escaped /\ ~r.m.fatal, r.ok,
                                   h.made, 0, c, kind)
                              EXCEPT !.flag = TRUE]
           ELSE /\ last' = Last("luafs_open", nargs, 2, beh, stack, stack,
                                first_error, TRUE, FALSE, FALSE, 0, c, kind)
                /\ shown' = <<>>
                /\ UNCHANGED <<stack, first_error, halted, cell>>
    /\ UNCHANGED luafsrest

\* luafs_close and luafs_closedir, which the VFS calls once for a handle.
\* last.flag tells whether the close callback was registered.
LuafsClose(c, beh, fancy) ==
    /\ halted = ""
    /\ cell[c].st = "live"
    /\ ~cell[c].closed
    /\ \E cb \in {luaMC_get_system_callback(
                    Machine, Env(fancy),
                    IF cell[c].kind = "file" THEN "luafs::close" ELSE "luafs::closedir")} :
         IF cb.ok
           THEN \E cl \in {lua_ref_cell__dispose(lua_ref_cell__push_value(cell[c]))} :
                \E r \in {luaMC_safe_call(lua_push(cb.m, cell[c].val),
                                          Env(fancy), 1, 2, beh)} :
                \E h \in {IF r.ok /\ ~r.m.fatal /\ ~r.m.escaped
                            THEN handle_returned_pair(r.m)
                            ELSE [m |-> r.m, res |-> -1]} :
                  /\ Commit(h.m)
                  /\ cell' = [cell EXCEPT ![c] = [cl EXCEPT !.closed = HaltOf(h.m) = ""]]
                  /\ last' = [Last("luafs_close", 1, 2, beh, stack, h.m.stack,
                                   first_error, ~r.m.escaped /\ ~r.m.fatal, r.ok,
                                   h.res = 0, 0, c, cell[c].kind)
                              EXCEPT !.flag = TRUE]
           ELSE /\ cell' = [cell EXCEPT ![c].closed = TRUE]
                /\ last' = Last("luafs_close", 1, 2, beh, stack, stack,
                                first_error, TRUE, FALSE, FALSE, 0, c, cell[c].kind)
                /\ shown' = <<>>
                /\ UNCHANGED <<stack, first_error, halted>>
    /\ UNCHANGED luafsrest

\* The behaviours that matter to a callback: script code runs only if the
\* callback is registered. It then returns a value (the pair value, nil),
\* returns nothing (nil, nil), returns an error pair, whose second element
\* is not nil, or raises an error.
LuafsBehavioursOf(key) ==
    IF key \in callbacks
      THEN { [kind |-> "ret", n |-> 1, rv |-> NumV(1), v |-> NilV],
             [kind |-> "ret", n |-> 0, rv |-> NilV, v |-> NilV],
             [kind |-> "ret", n |-> 2, rv |-> NumV(1), v |-> NilV],
             [kind |-> "err", n |-> 0, rv |-> NilV, v |-> StrV("boom")] }
      ELSE {NoBeh}

NextLuafs ==
    \/ \E key \in {"luafs::open", "luafs::opendir",
                     "luafs::close", "luafs::closedir"} :
          RegisterCallback(key)
    \/ \E c \in Cells, kind \in {"file", "dir"} :
          \E beh \in LuafsBehavioursOf(IF kind = "file" THEN "luafs::open"
                                       ELSE "luafs::opendir"),
             fancy \in Fancies :
             LuafsOpen(c, kind, beh, fancy)
    \/ \E c \in Cells :
          \E beh \in LuafsBehavioursOf(IF cell[c].kind = "file" THEN "luafs::close"
                                       ELSE "luafs::closedir"),
             fancy \in Fancies :
             LuafsClose(c, beh, fancy)

SpecLuafs ==
    Init /\ [][NextLuafs]_vars

(* --------------------- dialogs and custom widgets ---------------------- *)

\* The handlers of a dialog and of a custom widget.
WidgetHandlers ==
    {"on_validate", "on_unfocus", "on_mouse_down", "on_mouse_up",
     "on_mouse_drag", "on_mouse_move", "on_mouse_scroll_up",
     "on_mouse_scroll_down", "on_click"}

\* The behaviours that matter to a call of method_name on the widget at a:
\* a handler that exists returns true, false or nothing, or raises an error.
WidgetBehavioursOf(a, method_name) ==
    IF a \in Addrs /\ fwd[a] # 0 /\ method_name \in prox[fwd[a]].meth
      THEN { [kind |-> "ret", n |-> 1, rv |-> BoolV(TRUE), v |-> NilV],
             [kind |-> "ret", n |-> 1, rv |-> BoolV(FALSE), v |-> NilV],
             [kind |-> "ret", n |-> 0, rv |-> NilV, v |-> NilV],
             [kind |-> "err", n |-> 0, rv |-> NilV, v |-> StrV("boom")] }
      ELSE {NoBeh}

\* ui_dialog_callback, MSG_VALIDATE, after the call of "on_validate": the
\* state of the dialog.
ui_dialog_validate(old_state, ok_to_close, action_found, midnight_shutdown) ==
    IF midnight_shutdown THEN "closed"
    ELSE IF action_found
      THEN (IF ok_to_close THEN "closed" ELSE "active")
      ELSE old_state

\* An attempt to close the dialog at a: the dialog loop finds the state
\* DLG_CLOSED ("At this point the dialog is DLG_CLOSED") and will send
\* MSG_VALIDATE.
DlgStop(a) ==
    /\ halted = ""
    /\ pc = "idle"
    /\ alive[a]
    /\ wdg[a].state = "active"
    /\ ~wdg[a].closing
    /\ wdg' = [wdg EXCEPT ![a].state = "closed", ![a].closing = TRUE]
    /\ shown' = <<>>
    /\ last' = Last("dlg_stop", 0, 0, NoBeh, stack, stack, first_error, TRUE, TRUE,
                    FALSE, a, fwd[a], "")
    /\ UNCHANGED <<stack, first_error, ui_ready, callbacks, halted>>
    /\ UNCHANGED uivars
    /\ UNCHANGED enginevars
    /\ UNCHANGED <<timervars, iovars>>

\* ui_dialog_callback (w, sender, MSG_VALIDATE, parm, data).  last.aux is
\* the state the dialog is left in, last.found is action_found, last.flag
\* whether the handler was invoked, last.q is 1 when MC is shutting down.
MsgValidate(a, midnight_shutdown, beh, fancy) ==
    /\ halted = ""
    /\ pc = "idle"
    /\ alive[a]
    /\ wdg[a].closing
    /\ \E old_state \in {wdg[a].state} :
       \E r \in {call_widget_method(Machine, U, Env(fancy), a, "on_validate", 0, beh)} :
       \E st \in {ui_dialog_validate(old_state, r.handled, r.method_found,
                                     midnight_shutdown)} :
          /\ Commit(r.m)
          /\ wdg' = [wdg EXCEPT ![a].state = IF HaltOf(r.m) = "" THEN st ELSE "active",
                                ![a].closing = FALSE]
          /\ last' = [Last("validate", 0, 1, beh, stack, r.m.stack, first_error,
                           ~r.m.escaped /\ ~r.m.fatal, r.handled, r.method_found,
                           a, fwd[a], st)
                      EXCEPT !.flag = r.called,
                             !.q = IF midnight_shutdown THEN 1 ELSE 0]
    /\ UNCHANGED <<ui_ready, callbacks>>
    /\ UNCHANGED uivars
    /\ UNCHANGED enginevars
    /\ UNCHANGED <<timervars, iovars>>

\* custom_callback, MSG_UNFOCUS: "return method_found ? result : MSG_HANDLED".
custom_unfocus(result, method_found) ==
    IF method_found THEN result ELSE TRUE

\* custom_callback (w, sender, MSG_UNFOCUS, parm, data).  last.ok tells
\* whether MSG_HANDLED is returned, which lets the focus go.
MsgUnfocus(a, beh, fancy) ==
    /\ halted = ""
    /\ pc = "idle"
    /\ alive[a]
    /\ \E r \in {call_widget_method(Machine, U, Env(fancy), a, "on_unfocus", 0, beh)} :
          /\ Commit(r.m)
          /\ last' = [Last("unfocus", 0, 1, beh, stack, r.m.stack, first_error,
                           ~r.m.escaped /\ ~r.m.fatal,
                           custom_unfocus(r.handled, r.method_found),
                           r.method_found, a, fwd[a],
                           IF custom_unfocus(r.handled, r.method_found)
                             THEN "MSG_HANDLED" ELSE "MSG_NOT_HANDLED")
                      EXCEPT !.flag = r.called]
    /\ UNCHANGED <<ui_ready, callbacks>>
    /\ UNCHANGED uivars
    /\ UNCHANGED enginevars
    /\ UNCHANGED modvars

\* widget_method_exists (w, method_name).
widget_method_exists(u, w, method_name) ==
    Only({ g.ok /\ Field(u, g.p, method_name).t = "function"
           : g \in {luaUI_push_registered_widget([stack |-> <<>>], u, w, FALSE, 0)} })

\* call_abortive_widget_method (w, method_name, nargs, NULL): FALSE if and
\* only if the method returned an explicit false.  Returns [res, called, m].
call_abortive_widget_method(m, u, e, w, method_name, nargs, beh) ==
    Only({ IF r.m.escaped \/ r.m.fatal
             THEN [res |-> TRUE, called |-> r.called, m |-> r.m]
             ELSE [res |-> ~(lua_at(r.m, -1).t = "boolean"
                             /\ ~lua_toboolean(lua_at(r.m, -1))),
                   called |-> r.called, m |-> lua_pop(r.m, 1)]
           : r \in {call_widget_method_nopop(m, u, e, w, method_name, nargs, beh)} })

\* The mouse events a custom widget receives: the kind of the event,
\* whether the pointer is inside the widget, and the buttons: a normal
\* button, the two of the wheel (GPM_B_UP, GPM_B_DOWN), or none (what xterm
\* reports at a release).
MouseEvents ==
    [type : {"down"}, in_widget : BOOLEAN, buttons : {"left", "wheel_up", "wheel_down"}]
    \cup [type : {"up"}, in_widget : BOOLEAN, buttons : {"left", "none"}]
    \cup [type : {"drag"}, in_widget : BOOLEAN, buttons : {"left"}]
    \cup [type : {"move"}, in_widget : BOOLEAN, buttons : {"none"}]

\* A custom_mouse_event whose release leaves the capture on.
custom_mouse_event_keeps_capture(cust, event) ==
    IF event.type = "down"
      THEN IF event.in_widget \/ cust.capture
        THEN IF event.buttons = "wheel_up"
          THEN [capture |-> cust.capture, last_buttons_down |-> cust.last_buttons_down,
                method |-> "on_mouse_scroll_up", run_click |-> FALSE,
                buttons |-> event.buttons]
          ELSE IF event.buttons = "wheel_down"
          THEN [capture |-> cust.capture, last_buttons_down |-> cust.last_buttons_down,
                method |-> "on_mouse_scroll_down", run_click |-> FALSE,
                buttons |-> event.buttons]
          ELSE [capture |-> TRUE, last_buttons_down |-> event.buttons,
                method |-> "on_mouse_down", run_click |-> FALSE,
                buttons |-> event.buttons]
        ELSE [capture |-> cust.capture, last_buttons_down |-> cust.last_buttons_down,
              method |-> "", run_click |-> FALSE, buttons |-> event.buttons]
    ELSE IF event.type = "up"
      THEN IF cust.capture
        THEN [capture |-> TRUE, last_buttons_down |-> cust.last_buttons_down,
              method |-> "on_mouse_up", run_click |-> event.in_widget,
              buttons |-> IF event.buttons = "none" THEN cust.last_buttons_down
                          ELSE event.buttons]
        ELSE [capture |-> cust.capture, last_buttons_down |-> cust.last_buttons_down,
              method |-> "", run_click |-> FALSE, buttons |-> event.buttons]
    ELSE IF event.type = "drag"
      THEN [capture |-> cust.capture, last_buttons_down |-> cust.last_buttons_down,
            method |-> IF cust.capture THEN "on_mouse_drag" ELSE "",
            run_click |-> FALSE, buttons |-> event.buttons]
    ELSE [capture |-> cust.capture, last_buttons_down |-> cust.last_buttons_down,
          method |-> IF event.in_widget \/ cust.capture THEN "on_mouse_move" ELSE "",
          run_click |-> FALSE, buttons |-> event.buttons]

\* custom_mouse_event up to "if (method)": the new cust->mouse, the method
\* to call ("" is NULL), run_click, and event->buttons as the handlers
\* will see it.
custom_mouse_event(cust, event) ==
    IF event.type = "down"
      THEN IF event.in_widget \/ cust.capture
        THEN IF event.buttons = "wheel_up"
          THEN [capture |-> cust.capture, last_buttons_down |-> cust.last_buttons_down,
                method |-> "on_mouse_scroll_up", run_click |-> FALSE,
                buttons |-> event.buttons]
          ELSE IF event.buttons = "wheel_down"
          THEN [capture |-> cust.capture, last_buttons_down |-> cust.last_buttons_down,
                method |-> "on_mouse_scroll_down", run_click |-> FALSE,
                buttons |-> event.buttons]
          ELSE [capture |-> TRUE, last_buttons_down |-> event.buttons,
                method |-> "on_mouse_down", run_click |-> FALSE,
                buttons |-> event.buttons]
        ELSE [capture |-> cust.capture, last_buttons_down |-> cust.last_buttons_down,
              method |-> "", run_click |-> FALSE, buttons |-> event.buttons]
    ELSE IF event.type = "up"
      THEN IF cust.capture
        THEN [capture |-> FALSE, last_buttons_down |-> cust.last_buttons_down,
              method |-> "on_mouse_up", run_click |-> event.in_widget,
              buttons |-> IF event.buttons = "none" THEN cust.last_buttons_down
                          ELSE event.buttons]
        ELSE [capture |-> cust.capture, last_buttons_down |-> cust.last_buttons_down,
              method |-> "", run_click |-> FALSE, buttons |-> event.buttons]
    ELSE IF event.type = "drag"
      THEN [capture |-> cust.capture, last_buttons_down |-> cust.last_buttons_down,
            method |-> IF cust.capture THEN "on_mouse_drag" ELSE "",
            run_click |-> FALSE, buttons |-> event.buttons]
    ELSE [capture |-> cust.capture, last_buttons_down |-> cust.last_buttons_down,
          method |-> IF event.in_widget \/ cust.capture THEN "on_mouse_move" ELSE "",
          run_click |-> FALSE, buttons |-> event.buttons]

\* The name under which the click handler is looked up.
ClickMethod(u, w) ==
    IF widget_method_exists(u, w, "on_mouse_click") THEN "on_mouse_click" ELSE "on_click"

\* custom_mouse_event (event, data) for the custom widget at a; beh is what
\* the handler of the event does, cbeh what the click handler does.
\* last.aux is the method the event was delivered to, last.found is
\* run_click, last.inner the kind of the event, last.flag whether the
\* pointer was inside; last.q tells what held before the event: 1 a button
\* had been pressed inside and none released since, 2 script code had
\* turned the capture on, 3 both, 0 neither.  last.ok is MOU_NORMAL.
MouseEvent(a, event, beh, cbeh, fancy) ==
    /\ halted = ""
    /\ pc = "idle"
    /\ alive[a]
    /\ \E c \in {custom_mouse_event(wdg[a], event)} :
       \E r1 \in {IF c.method # ""
                    THEN call_abortive_widget_method(
                           [Machine EXCEPT !.stack = stack \o Args(4)], U, Env(fancy),
                           a, c.method, 4, beh)
                    ELSE [res |-> TRUE, called |-> FALSE, m |-> Machine]} :
       \E r2 \in {IF c.method # "" /\ c.run_click /\ HaltOf(r1.m) = ""
                    THEN call_abortive_widget_method(
                           [r1.m EXCEPT !.stack = r1.m.stack \o Args(4)], U, Env(fancy),
                           a, ClickMethod(U, a), 4, cbeh)
                    ELSE [res |-> TRUE, called |-> FALSE, m |-> r1.m]} :
          /\ Commit(r2.m)
          /\ wdg' = [wdg EXCEPT
                       ![a].capture = c.capture,
                       ![a].last_buttons_down = c.last_buttons_down,
                       ![a].pressed_in =
                           IF event.type = "down" /\ event.in_widget
                              /\ event.buttons \notin {"wheel_up", "wheel_down"}
                             THEN TRUE
                           ELSE IF event.type = "up" THEN FALSE ELSE @,
                       ![a].assigned = IF event.type = "up" THEN FALSE ELSE @]
          /\ last' = [Last("mouse", 4, 1, beh, stack, r2.m.stack, first_error,
                           ~r2.m.escaped /\ ~r2.m.fatal,
                           c.method # "" /\ r1.res /\ r2.res,
                           c.method # "" /\ c.run_click, a, fwd[a], c.method)
                      EXCEPT !.inner = event.type,
                             !.flag = event.in_widget,
                             !.v = StrV(event.buttons),
                             !.q = (IF wdg[a].pressed_in THEN 1 ELSE 0)
                                   + (IF wdg[a].assigned THEN 2 ELSE 0)]
    /\ UNCHANGED <<ui_ready, callbacks>>
    /\ UNCHANGED uivars
    /\ UNCHANGED enginevars
    /\ UNCHANGED <<timervars, iovars>>

\* l_custom_set_mouse_capture: script code, holding the proxy of the
\* widget at a, assigns wgt.mouse.capture = b.
SetMouseCapture(a, b) ==
    /\ halted = ""
    /\ pc = "idle"
    /\ alive[a]
    /\ fwd[a] # 0
    /\ prox[fwd[a]].ref
    /\ wdg' = [wdg EXCEPT ![a].capture = b, ![a].assigned = b]
    /\ shown' = <<>>
    /\ last' = [Last("set_mouse_capture", 2, 0, NoBeh, stack, stack, first_error,
                     TRUE, TRUE, FALSE, a, fwd[a], "")
                EXCEPT !.flag = b]
    /\ UNCHANGED <<stack, first_error, ui_ready, callbacks, halted>>
    /\ UNCHANGED uivars
    /\ UNCHANGED enginevars
    /\ UNCHANGED <<timervars, iovars>>

\* Dialogs and custom widgets made by script code, their handlers called
\* by the dialog loop.
NextWidget ==
    \/ \E a \in Addrs : NewWidget(a, TRUE)
    \/ \E a \in Addrs :
          \E meth \in (IF fwd[a] # 0 THEN {{}} ELSE {{}, WidgetHandlers,
                                         WidgetHandlers \cup {"on_mouse_click"}}) :
             PushWidget(a, FALSE, FALSE, meth)
    \/ \E p \in Proxies : DropRef(p)
    \/ \E a \in Addrs : DlgStop(a)
    \/ \E a \in Addrs, midnight_shutdown \in BOOLEAN :
          \E beh \in WidgetBehavioursOf(a, "on_validate"), fancy \in Fancies :
             MsgValidate(a, midnight_shutdown, beh, fancy)
    \/ \E a \in Addrs :
          \E beh \in WidgetBehavioursOf(a, "on_unfocus"), fancy \in Fancies :
             MsgUnfocus(a, beh, fancy)
    \/ \E a \in Addrs, event \in MouseEvents :
          \E beh \in (IF custom_mouse_event(wdg[a], event).method # ""
                        THEN WidgetBehavioursOf(a, "on_mouse_up") ELSE {NoBeh}),
             cbeh \in (IF custom_mouse_event(wdg[a], event).run_click
                         THEN WidgetBehavioursOf(a, "on_click") ELSE {NoBeh}),
             fancy \in Fancies :
             MouseEvent(a, event, beh, cbeh, fancy)
    \/ \E a \in Addrs, b \in BOOLEAN : SetMouseCapture(a, b)

SpecWidget ==
    InitUI /\ [][NextWidget]_vars

\* Safe calls, key presses, dialogs opened by script code, and restarts:
\* the core has registered its callbacks; the UI becomes ready once, while
\* no call is in progress.
InitRestart ==
    /\ stack = <<>>
    /\ first_error = NilV
    /\ ui_ready = FALSE
    /\ callbacks = BootCallbacks
    /\ shown = <<>>
    /\ halted = ""
    /\ restart_requested = FALSE
    /\ Lg = 0
    /\ chain = <<>>
    /\ InitMod
    /\ last = Last("init", 0, 0, NoBeh, <<>>, <<>>, NilV, TRUE, TRUE, FALSE, 0, 0, "")
    /\ alive = [a \in Addrs |-> FALSE]
    /\ has_class = [a \in Addrs |-> FALSE]
    /\ gen = [a \in Addrs |-> 0]
    /\ prox = [p \in Proxies |-> NoProxy]
    /\ fwd = [a \in Addrs |-> 0]
    /\ bwd = [p \in Proxies |-> 0]
    /\ pushed = [a \in Addrs |-> 0]
    /\ pc = "idle"
    /\ cur = NoCur

NextRestart ==
    \/ /\ ~ui_ready
       /\ chain = <<>>
       /\ \E fancy \in Fancies, beh \in TriggerBehaviours : UiReady(fancy, beh)
    \/ EatKeyEnter
    \/ \E nargs \in 0..MaxArgs, nresults \in 0..MaxResults :
          SafeCallEnter(nargs, nresults)
    \/ RequestRestart
    \/ \E nvals \in 0..1 : OpenDialog(nvals)
    \/ CloseDialog
    \/ \E beh \in Behaviours, fancy \in Fancies :
          \E load \in (IF restart_requested THEN Loads ELSE {"ok"}) :
          \E boot \in (IF restart_requested THEN BootBehaviours ELSE {NoBeh}) :
             ScriptReturns(beh, fancy, load, boot)

SpecRestart ==
    InitRestart /\ [][NextRestart]_vars

(* ------------------------------ properties ----------------------------- *)

\* The value a failed call of luaMC_safe_call raised, NilV if it did not fail.
Raised ==
    IF last.beh.kind = "err" THEN last.beh.v ELSE NilV

\* C1: every luaMC_safe_call (L, nargs, nresults) passes its stack guard
\* and, when it returns, leaves the operand stack deeper than at entry by
\* exactly nresults - nargs - 1 if the call succeeded and by exactly
\* -nargs - 1 if it failed; what was below the function is untouched.
C1_StackBalance ==
    last.op = "safe_call" =>
      /\ halted # "fatal"
      /\ last.ret =>
           /\ Len(last.after) - Len(last.before) =
                IF last.ok THEN last.nresults - last.nargs - 1
                ELSE -last.nargs - 1
           /\ \A i \in 1..(Len(last.before) - last.nargs - 1) :
                 last.after[i] = last.before[i]

\* A failed call with one argument, above a value the caller had staged.
C1_Witness ==
    /\ last.op = "safe_call"
    /\ last.ret
    /\ ~last.ok
    /\ last.nargs = 1
    /\ Len(last.before) = 3
    /\ Len(last.after) = 1

\* C3: whatever value script code raises, luaMC_safe_call handles the
\* failure and returns FALSE to its caller; no error leaves it.
C3_HandledInside ==
    (last.op = "safe_call" /\ last.beh.kind = "err") =>
      /\ last.ret
      /\ ~last.ok
      /\ halted = ""

\* C4: a call that fails with the abort {abort = true, message = "stop"}
\* is shown by the abort display path and leaves first_error as it was; a
\* call that fails with the string "boom" is shown by the error display
\* path with the traceback appended, and "boom" is recorded in first_error
\* if first_error was empty.
C4_AbortVsError ==
    (last.op = "safe_call" /\ last.ret) =>
      /\ Raised = TableV("stop", TRUE, FALSE) =>
           /\ ~last.ok
           /\ first_error = last.fe
           /\ Len(shown) = 1
           /\ shown[1].path \in {"devel::display_abort", "display_abort__simple"}
           /\ shown[1].v = Raised
      /\ Raised = StrV("boom") =>
           /\ ~last.ok
           /\ Len(shown) = 1
           /\ shown[1].path \in {"devel::display_error", "display_error__simple"}
           /\ shown[1].v = TracedV("boom")
           /\ first_error = IF last.fe = NilV THEN TracedV("boom") ELSE last.fe

\* The string "boom" has been raised while first_error held an earlier
\* message, after an abort had left first_error empty.
C4_Witness ==
    /\ last.op = "safe_call"
    /\ Raised = StrV("boom")
    /\ last.fe # NilV
    /\ last.fe.s # "boom"
    /\ first_error = last.fe

\* The last operation was a call of a widget method, by native code or by
\* mc_lua_notify_on_widget_destruction.
MethodCalled ==
    last.op \in {"call_method", "on_destroy"}

\* The single result luaMC_safe_call (Lg, 1 + nargs, 1) leaves when the
\* method returned.
MethodResult ==
    IF last.beh.n >= 1 THEN last.beh.rv ELSE NilV

\* C2: luaUI_check_widget_ex never returns the address of a widget that
\* has been destroyed: the address it returns for a proxy is that of a
\* widget which exists and for which the proxy was made.
C2_NoStaleAddress ==
    (last.op = "check_widget" /\ last.aux = "ptr") =>
      /\ alive[last.a]
      /\ prox[last.p].gen = gen[last.a]

C6_ArgsConsumed ==
    (MethodCalled /\ last.ret) =>
      /\ last.after = SubSeq(last.before, 1, Len(last.before) - last.nargs)
      /\ (fwd[last.a] = 0 \/ last.aux \notin prox[fwd[last.a]].meth) =>
           /\ ~last.flag
           /\ ~last.ok
           /\ ~last.found

\* A method was called with one argument on a widget that has no proxy.
C6_Witness ==
    /\ last.op = "call_method"
    /\ last.nargs = 1
    /\ Len(last.before) = 1
    /\ fwd[last.a] = 0
    /\ last.after = <<>>

\* C7, as the specification states it: a luaUI_push_widget_ex for a widget for
\* which an earlier one has given a proxy, with no destruction of the
\* widget in between, gives that proxy again.
C7_SameProxyAlways ==
    [][ (last'.op = "push_widget" /\ last'.aux # "exit" /\ pushed[last'.a] # 0)
          => last'.p = pushed[last'.a] ]_vars

\* C7, amended: a luaUI_push_widget_ex for a widget for which an earlier
\* one has given a proxy, with no destruction of the widget in between and
\* the proxy not collected in between, gives that proxy again, allocates no
\* proxy, leaves ui.weak as it is and does not call "init" again.
C7_IdempotentLookup ==
    [][ (/\ last'.op = "push_widget"
         /\ last'.aux # "exit"
         /\ pushed[last'.a] # 0
         /\ prox[pushed[last'.a]].st = "live")
          => /\ last'.p = pushed[last'.a]
             /\ last'.aux = "existing"
             /\ fwd' = fwd
             /\ bwd' = bwd
             /\ \A p \in Proxies :
                   /\ prox'[p].st = prox[p].st
                   /\ prox'[p].inits = prox[p].inits
                   /\ prox'[p].cw = prox[p].cw ]_vars

\* The second push for a widget has given the proxy of the first.
C7_Witness ==
    /\ last.op = "push_widget"
    /\ last.aux = "existing"
    /\ last.q # 0
    /\ last.p = last.q

\* C8: the proxy luaUI_push_widget_ex gives is never one marked destroyed
\* nor one made for an earlier widget at the same address, and the first
\* push after the widget at an address was destroyed and the address
\* reused makes a new proxy.
C8_NewProxyAfterDestroy ==
    (last.op = "push_widget" /\ last.aux # "exit") =>
      /\ prox[last.p].cw = AddrV(last.a)
      /\ prox[last.p].gen = gen[last.a]
      /\ last.q = 0 => last.aux = "created"

\* A proxy has been made for the second widget at an address whose first
\* widget had a proxy, now marked destroyed.
C8_Witness ==
    /\ last.op = "push_widget"
    /\ last.aux = "created"
    /\ gen[last.a] = 2
    /\ \E p \in Proxies :
          /\ p # last.p
          /\ prox[p].cw = BoolV(FALSE)
          /\ prox[p].gen = 1

\* The entries of ui.weak for the proxy p are the one forward entry from
\* the address in its __cwidget__ and the one backward entry to it.
BothEntries(p) ==
    /\ prox[p].cw.n \in Addrs
    /\ {a \in Addrs : fwd[a] = p} = {prox[p].cw.n}
    /\ bwd[p] = prox[p].cw.n

\* C9, as the specification states it, a proxy being live until the collector has
\* freed it.
C9_EntriesUntilFreed ==
    pc = "idle" =>
      \A p \in Proxies :
         (prox[p].st \in {"live", "fin"} /\ prox[p].cw.t = "lightuserdata")
           => BothEntries(p)

\* C9, amended: whenever mc_lua_notify_on_widget_destruction is not in
\* progress, each proxy that the collector has not picked for finalization
\* and whose __cwidget__ has not been marked destroyed has exactly one
\* forward and one backward entry in ui.weak.
C9_WeakTable ==
    pc = "idle" =>
      \A p \in Proxies :
         (prox[p].st = "live" /\ prox[p].cw.t = "lightuserdata")
           => BothEntries(p)

\* Two proxies exist, one registered for its widget and one marked
\* destroyed.
C9_Witness ==
    /\ pc = "idle"
    /\ \E p \in Proxies :
          /\ prox[p].st = "live"
          /\ prox[p].cw.t = "lightuserdata"
          /\ BothEntries(p)
    /\ \E p \in Proxies : prox[p].st = "live" /\ prox[p].cw = BoolV(FALSE)

\* C10: when mc_lua_notify_on_widget_destruction has found a proxy, by the
\* fast lookup or by the hard search, and the proxy has an on_destroy
\* method, the method has been invoked by the time the entries are removed.
C10_OnDestroyInvoked ==
    (pc = "called" /\ "on_destroy" \in prox[cur.p].meth) => cur.invoked

\* The __cwidget__ field of the value luaUI_check_widget_ex was given.
CheckedHandle ==
    RawCWidget(U, last.v)

C12_RestartOnlyWhenIdle ==
    (last.op = "eat_key" /\ last.flag /\ last.ret) =>
      IF last.q = 0
        THEN last.aux = "restarted"
        ELSE /\ last.aux = "rejected"
             /\ Lg = 0
             /\ \E i \in 1..Len(shown) : shown[i].path = "check_for_restart"

\* The safe calls in progress in the Lua state in use.
LiveCalls ==
    {i \in 1..Len(chain) : chain[i].kind = "call" /\ chain[i].L = Lg}

\* C13: luaMC_safe_call is reentrant.  While safe calls are nested, each
\* has its own message handler on the stack just below its function, at
\* its own depth; and when a call ends, whether or not safe calls were
\* made and failed inside it, its result is that of its own function, the
\* stack guards pass, the stack holds the results in place of the function
\* and the arguments (the last of them what the function returned there,
\* or nil when it returned fewer), and what was below them is as it was.
C13_Reentrant ==
    /\ halted = "" =>
         \A i \in LiveCalls :
            /\ Len(stack) > chain[i].base
            /\ stack[chain[i].base - chain[i].nargs] = FnV("_luaMC_pcall__errfunc")
            /\ stack[chain[i].base - chain[i].nargs + 1].t = "function"
    /\ (last.op \in {"eat_key", "safe_call"} /\ last.aux # "no callback") =>
         /\ halted # "fatal"
         /\ last.ret =>
              /\ last.ok = (last.beh.kind = "ret")
              /\ Len(last.after) = Len(last.before) - 2 - last.nargs
                                     + (IF last.ok THEN last.nresults ELSE 0)
              /\ \A j \in 1..(Len(last.before) - 2 - last.nargs) :
                    last.after[j] = last.before[j]
              /\ (last.ok /\ last.nresults > 0) =>
                    last.v = (IF last.beh.n >= last.nresults THEN last.beh.rv
                              ELSE NilV)

\* An outer call returns its own result after a safe call made inside it
\* has failed.
C13_Witness ==
    /\ last.op \in {"eat_key", "safe_call"}
    /\ last.inner = "err"
    /\ last.ret /\ last.ok /\ last.nresults = 1
    /\ last.v = BoolV(TRUE)
    /\ halted = ""

\* C14: the First-Error Slot is written at most once: once it holds a
\* message no step (an error, an abort, a replay, a restart) changes it.
C14_WrittenOnce ==
    [][first_error # NilV => first_error' = first_error]_vars

\* A restart whose bootstrap file fails, made when the slot already held a
\* message, has left the slot as it was.
C14_Witness ==
    /\ last.aux = "restarted"
    /\ last.fe # NilV
    /\ first_error = last.fe
    /\ \E i \in 1..Len(shown) : shown[i].v.t = "string" /\ shown[i].v.s # last.fe.s

\* C15: the First-Error Slot only ever takes an error handled while the UI
\* was not ready: a step taken when the UI is ready and the slot is empty
\* leaves the slot empty.
C15_OnlyBeforeUiReady ==
    [][(ui_ready /\ first_error = NilV) => first_error' = NilV]_vars

\* C16: the first non-abort error handled while the UI is not ready goes
\* to stderr and into the empty First-Error Slot, later errors handled
\* while the UI is not ready leave the slot as it is, and the step that
\* makes the UI ready displays what the slot holds first of all, through
\* the fancy callback or a message box.
C16_ReplayAtUiReady ==
    /\ [][(/\ ~ui_ready /\ ~ui_ready'
           /\ first_error = NilV
           /\ last'.op = "safe_call" /\ last'.ret /\ ~last'.ok
           /\ ~luaMC_isabort(last'.beh.v))
          => /\ Len(shown') = 1
             /\ shown'[1].sink = "stderr"
             /\ first_error' = shown'[1].v]_vars
    /\ [][(~ui_ready /\ ~ui_ready' /\ first_error # NilV)
          => first_error' = first_error]_vars
    /\ []((last.op = "ui_is_ready" /\ last.aux = "first" /\ last.fe # NilV)
          => /\ Len(shown) >= 1
             /\ shown[1].v = last.fe
             /\ shown[1].sink \in {"callback", "message"}
             /\ shown[1].path \in {"devel::display_error", "display_error__simple"})

\* The UI has become ready with a message in the slot, and the message
\* was shown in a message box.
C16_Witness ==
    /\ last.op = "ui_is_ready" /\ last.aux = "first"
    /\ last.fe = TracedV("boom")
    /\ Len(shown) >= 1
    /\ shown[1] = Shown("display_error__simple", "message", TracedV("boom"))

\* C17: mc_lua_replay_first_error, the first time and every time it is
\* called again, returns, displays the message in the First-Error Slot
\* once and leaves the slot as it was; with an empty slot it displays
\* nothing.
C17_ReplayIdempotent ==
    last.op = "ui_is_ready" =>
      /\ last.flag
      /\ last.v = last.fe
      /\ last.q = (IF last.fe = NilV THEN 0 ELSE 1)
      /\ last.fe # NilV => shown[1].v = last.fe

\* The replay has run a second time with a message in the slot and has
\* displayed it again.
C17_Witness ==
    /\ last.op = "ui_is_ready" /\ last.aux = "again"
    /\ last.fe = TracedV("boom")
    /\ last.q = 1
    /\ shown[1].v = TracedV("boom")
    /\ first_error = TracedV("boom")

\* The registry key of the fancy display of what the last safe call raised.
FancyOf ==
    IF luaMC_isabort(Raised) THEN "devel::display_abort" ELSE "devel::display_error"

\* The simple display function of what the last safe call raised.
SimpleOf ==
    IF luaMC_isabort(Raised) THEN "display_abort__simple" ELSE "display_error__simple"

C19_MissingFileUntouched ==
    (last.op = "safe_dofile" /\ last.aux = "file") =>
      /\ last.a = LUA_ERRFILE
      /\ ~last.found
      /\ first_error = last.fe

C22_ClosesOnlyOnTrue ==
    (last.op = "validate" /\ last.flag /\ last.q = 0 /\ last.ret)
      => (wdg[last.a].state = "closed"
            <=> (last.beh.kind = "ret" /\ last.beh.n > 0
                 /\ lua_toboolean(last.beh.rv)))

\* C23: a custom widget that implements on_unfocus loses the focus
\* (MSG_UNFOCUS is answered with MSG_HANDLED) only if that handler returns
\* true; a custom widget that does not implement on_unfocus can always be
\* left.
C23_LeavesOnlyOnTrue ==
    (last.op = "unfocus" /\ last.ret)
      => IF last.flag
           THEN (last.ok <=> (last.beh.kind = "ret" /\ last.beh.n > 0
                              /\ lua_toboolean(last.beh.rv)))
           ELSE last.ok

\* C24 as stated: on_mouse_up and on_mouse_drag are delivered only for a
\* button that was pressed down inside the widget, and the click handler
\* is invoked only for a release inside the widget that follows such a
\* press.
C24_OnlyAfterPressInside ==
    last.op = "mouse"
      => /\ last.aux \in {"on_mouse_up", "on_mouse_drag"} => last.q \in {1, 3}
         /\ last.found => last.inner = "up" /\ last.flag /\ last.q \in {1, 3}

\* C24: for a custom widget, mouse capture is set by a (non-wheel) button
\* press inside the widget and cleared by the next button release, and is
\* on only after such a press or after script code has turned it on;
\* on_mouse_up and on_mouse_drag are delivered only after a button was
\* pressed down inside the widget, or script code turned the capture on,
\* and no button was released since, whether the pointer is then inside or
\* outside; the click handler is invoked only for a release inside the
\* widget that follows such a press or assignment, and that release ends
\* the capture, so at most once per press.
C24_Capture ==
    /\ \A a \in Addrs :
          (alive[a] /\ wdg[a].capture) => (wdg[a].pressed_in \/ wdg[a].assigned)
    /\ (last.op = "mouse" /\ last.ret)
         => /\ (last.inner = "down" /\ last.flag /\ last.v = StrV("left"))
                 => wdg[last.a].capture /\ last.aux = "on_mouse_down"
            /\ last.inner = "up" => ~wdg[last.a].capture
            /\ last.aux \in {"on_mouse_up", "on_mouse_drag"} => last.q >= 1
            /\ last.found
                 => /\ last.inner = "up" /\ last.flag /\ last.q >= 1
                    /\ ~wdg[last.a].capture
                    /\ ~wdg[last.a].pressed_in /\ ~wdg[last.a].assigned

\* The click handler has run for a release inside the widget that follows
\* a press inside it.
C24_Witness ==
    /\ last.op = "mouse"
    /\ last.found
    /\ last.q = 1
    /\ last.p # 0
    /\ last.beh.kind = "ret"

\* C25: a directory handle made by fs.opendir is closed automatically when
\* next () reaches the end of the directory or when the handle is garbage
\* collected; the native directory is closed at most once however close (),
\* the end of the directory and collection are combined (and exactly once
\* by the time the handle is collected); next () on a closed handle
\* returns nothing.
C25_ClosedOnce ==
    /\ \A h \in DirHandles :
          /\ dirh[h].closedirs <= (IF dirh[h].opened THEN 1 ELSE 0)
          /\ dirh[h].dir = "open" <=> (dirh[h].opened /\ dirh[h].closedirs = 0)
          /\ dirh[h].st = "collected"
               => dirh[h].closedirs = (IF dirh[h].opened THEN 1 ELSE 0)
    /\ last.op = "dir_next"
         => /\ ~last.found => last.nresults = 0
            /\ last.nresults = 0 => dirh[last.p].dir = "NULL"
            /\ last.nresults = 2 => last.aux \notin {"", ".", ".."}

\* next () has reached the end of a directory and closed it, and the
\* handle was closed again and collected afterwards.
C25_Witness ==
    \E h \in DirHandles :
       /\ dirh[h].st = "collected"
       /\ dirh[h].opened
       /\ dirh[h].left = <<>>
       /\ dirh[h].closedirs = 1
       /\ last.op = "dir_gc"
       /\ ~last.found

\* C26: at any time at most one proxy carries the live address handle of
\* a native widget: luaUI_push_widget_ex makes no second proxy for a widget
\* while an earlier proxy for it has not been marked destroyed, the
\* collector's finalization window included.
C26_OneLiveHandle ==
    \A a \in Addrs :
       alive[a] =>
         Cardinality({p \in Proxies : /\ prox[p].st \in {"live", "fin"}
                                       /\ prox[p].cw = AddrV(a)
                                       /\ prox[p].gen = gen[a]}) <= 1

\* C27: each restart request leads to at most one restart and is examined
\* only right after a key press has been handled by the key callback: the
\* engine is restarted only by mc_lua_eat_key after its callback has
\* ended, only when a request is pending, and the restart uses the request
\* up; the request is cleared nowhere else; a request that is rejected is
\* discarded, so that a later restart needs a new request.
C27_OneRestartPerRequest ==
    [][ /\ Lg' # Lg
             => /\ Lg' = Lg + 1
                /\ restart_requested
                /\ ~restart_requested'
                /\ last'.op = "eat_key"
                /\ last'.aux = "restarted"
        /\ (restart_requested /\ ~restart_requested')
             => last'.op = "eat_key" /\ last'.aux \in {"restarted", "rejected"}
        /\ (last' # last /\ last'.op = "eat_key" /\ last'.aux = "rejected")
             => /\ restart_requested
                /\ ~restart_requested'
                /\ Lg' = Lg
        /\ (~restart_requested /\ restart_requested')
             => last'.op = "request_restart" ]_vars

\* A request was rejected after a key press and is not pending any more.
C27_Witness ==
    /\ last.op = "eat_key"
    /\ last.aux = "rejected"
    /\ ~restart_requested
    /\ Lg = 0

\* C30: mc_lua_eat_key reports the key as consumed exactly when the key
\* callback returned a true value or stopped with a script error; it
\* reports the key as not consumed when the callback returned false or
\* nil, or when no key callback is registered; and it leaves the depth of
\* the operand stack, as lua_gettop (Lg) gives it, unchanged in every case.
C30_Consumed ==
    (last.op = "eat_key" /\ halted = "")
      => /\ last.aux = "no callback" => ~last.found
         /\ last.aux # "no callback"
              => (last.found <=> (\/ last.beh.kind = "err"
                                  \/ /\ last.beh.n > 0
                                     /\ lua_toboolean(last.beh.rv)))
         /\ last.a = last.p

\* A key callback that stopped with a script error: the key is consumed.
C30_Witness ==
    /\ last.op = "eat_key"
    /\ halted = ""
    /\ last.beh.kind = "err"
    /\ ~last.ok
    /\ last.found
    /\ last.a = last.p

\* C28: widget:destroy () frees the native widget at most once: g_free is
\* called only on a widget that exists and that the proxy stands for;
\* destroying a proxy whose widget is already destroyed is a silent no-op;
\* destroying a widget that is mapped in a dialog fails with an error and
\* frees nothing; and after a successful destroy is_alive () on that proxy
\* returns false.
C28_DestroyOnce ==
    last.op = "destroy"
      => /\ last.found => last.flag
         /\ (last.inner = "proxy" /\ ~last.flag)
              => last.aux = "NULL" /\ last.ok /\ ~last.found
         /\ last.aux = "mapped" => ~last.ok /\ ~last.found
         /\ (last.found /\ halted = "")
              => /\ ~alive[last.a]
                 /\ luaUI_check_widget_ex(U, last.v, TRUE).res = "NULL"

\* C29: every handle made by luafs_open / luafs_opendir has its registry
\* reference and its cell released exactly once by the luafs_close /
\* luafs_closedir call for it, whether or not the close callback is
\* registered and whether or not it fails; the cell is never read after it
\* has been disposed.
C29_ReleasedOnce ==
    \A c \in Cells :
       /\ cell[c].unrefs <= 1
       /\ cell[c].frees <= 1
       /\ cell[c].stale_reads = 0
       /\ cell[c].closed => cell[c].unrefs = 1 /\ cell[c].frees = 1

====
